---------------------------- MODULE Spec2Model ----------------------------
(***************************************************************************)
(* A model of the OpenSILEX Python client (src/opensilex_client.py).       *)
(*                                                                         *)
(* Spec      : one OpenSilexClient session used from a single thread:      *)
(*             authenticate() and _make_request(), the latter split at its *)
(*             network calls (initial authentication, original attempt,    *)
(*             re-authentication, retry).  The remote server is the        *)
(*             environment: every network call draws its answer from a     *)
(*             small set of responses (transport fault, status, body).     *)
(* SpecPages : get_all_pages() driving a listing method whose pages are    *)
(*             drawn from a small set of page contents.                    *)
(***************************************************************************)
EXTENDS Integers, Sequences, FiniteSets, TLC

VARIABLES
    token,        \* self.token
    headers,      \* self.headers: header name -> value
    pc,           \* position inside _make_request ("idle" between calls)
    req,          \* arguments of the running / last _make_request call
    response,     \* local variable `response` of _make_request
    result,       \* value returned by the last _make_request call
    authRet,      \* value returned by the authenticate() call of the last step
    lastAuth,     \* answer received by the authenticate() call of the last step
    calls,        \* network calls issued by the running / last _make_request
    heldAtCall,   \* whether a token was held when _make_request was entered
    lastOkToken,  \* token carried by the last authentication answer accepted
    okAtCall,     \* lastOkToken when _make_request was entered
    authSent,     \* request sent by the authenticate() call of the last step
    authTried,    \* an authentication request was sent in this session
    authOk,       \* an authentication of this session was answered 200 with a token
    base_url,     \* self.base_url
    username,     \* self.username
    password,     \* self.password
    gp_pc,        \* position inside get_all_pages
    page,         \* local variable `page` of get_all_pages
    all_results,  \* local variable `all_results` of get_all_pages
    gp_calls,     \* kwargs of every invocation of the listing method
    gp_pages,     \* what every invocation of the listing method returned
    gp_ret,       \* value returned by get_all_pages
    remote,       \* the remote listing get_all_pages runs against
    cfg,          \* the host configuration file parse_ssh_config is given
    hosts,        \* local variable `hosts` of parse_ssh_config
    current_host, \* local variable `current_host` of parse_ssh_config
    lineno,       \* number of lines of the file the loop has consumed
    host_call,    \* the running / last call into the host resolver and its arguments
    host_ret,     \* what that call handed to its caller
    parse_pc,     \* position inside parse_ssh_config
    fc_call,      \* the running / last ProjectsClient method call and its argument
    fc_sent,      \* calls that method issued on self.client
    fc_env,       \* envelope self.client constructed for the call
    fc_ret,       \* what the ProjectsClient method handed to its caller
    fc_pc,        \* position inside the ProjectsClient method
    a_pc,         \* position inside get_multiple_experiments_data
    a_token,      \* self.token of the AsyncOpenSilexClient
    a_uris,       \* argument experiment_uris
    a_tasks,      \* the fetch_data_async tasks, by position
    a_log,        \* network events of the call, in order
    a_ret,        \* what get_multiple_experiments_data handed to its caller
    b_pc,         \* position inside batch_upload_data
    data_list,    \* local variable `data_list`: the prepared rows
    b_i,          \* loop variable `i` of the upload loop
    success_count,\* local variable `success_count`
    b_errors,     \* local variable `errors`
    b_posts       \* the post_data calls of the loop and what they returned

accountVars == <<base_url, username, password>>
authVars == <<authSent, authTried, authOk>>
sessionVars == <<token, headers, pc, req, response, result, authRet, lastAuth,
                 calls, heldAtCall, lastOkToken, okAtCall, authVars, accountVars>>
pageVars == <<gp_pc, page, all_results, gp_calls, gp_pages, gp_ret>>
listingVars == <<remote>>
hostVars == <<cfg, hosts, current_host, lineno, parse_pc, host_call, host_ret>>
facadeVars == <<fc_call, fc_sent, fc_env, fc_ret, fc_pc>>
asyncVars == <<a_pc, a_token, a_uris, a_tasks, a_log, a_ret>>
batchVars == <<b_pc, data_list, b_i, success_count, b_errors, b_posts>>
laterVars == <<listingVars, hostVars, facadeVars, asyncVars, batchVars>>
vars == <<sessionVars, pageVars, laterVars>>

-----------------------------------------------------------------------------
(* Python values *)

\* Python's None
None == "<None>"

\* marks an exception leaving a function, and a call that has not returned
Raised == "<raised>"
Pending == "<pending>"
NoCall == "<no call>"

\* Python's True and False as returned values
PyBool(b) == IF b THEN "True" ELSE "False"

\* Python truthiness of a string-or-None value (`if not self.token`)
Truthy(x) == x # None /\ x # ""

-----------------------------------------------------------------------------
(* The construction of a session: OpenSilexClient.__init__ *)

\* Python values of the constructor's and the host resolver's arguments:
\* None or a str, a str being the sequence of its characters
PyNone == [kind |-> "None", v |-> <<>>]
PyStr(t) == [kind |-> "str", v |-> t]

DefaultBaseUrl ==
    <<"h", "t", "t", "p", ":", "/", "/", "o", "p", "e", "n", "s", "i", "l", "e", "x",
      ".", "o", "r", "g", "/", "s", "a", "n", "d", "b", "o", "x", "/", "r", "e", "s",
      "t">>

\* str.rstrip('/')
RECURSIVE RStripSlash(_)
RStripSlash(t) ==
    IF t # <<>> /\ t[Len(t)] = "/" THEN RStripSlash(SubSeq(t, 1, Len(t) - 1)) ELSE t

\* __init__ storing the base URL as given, without rstrip('/')
init_base_url_no_rstrip(url) ==
    IF url.kind = "None" THEN DefaultBaseUrl ELSE url.v

\* __init__ from `if base_url is None:` on: the default, then rstrip('/')
init_base_url(url) ==
    RStripSlash(IF url.kind = "None" THEN DefaultBaseUrl ELSE url.v)

\* base_url arguments of the constructor
GivenUrl ==
    <<"h", "t", "t", "p", ":", "/", "/", "h", "/", "r", "e", "s", "t", "/">>
BaseUrlArgs == {PyNone, PyStr(GivenUrl)}

\* the default (username, password) arguments of the constructor
DefaultUsername == "admin@opensilex.org"
DefaultPassword == "admin"

\* constructor calls: all defaults, or a base URL and credentials given
ConstructorArgs ==
    {[url |-> PyNone, cred |-> [username |-> DefaultUsername, password |-> DefaultPassword]],
     [url |-> PyStr(GivenUrl), cred |-> [username |-> "alice", password |-> "secret"]]}

-----------------------------------------------------------------------------
(* The remote server: the answers a network call can get *)

\* values the authentication endpoint may send as result.token: a token, the
\* empty string (a falsy token) or JSON null (None after response.json())
Tokens == {"T1", "T2", "", None}

\* f"{x}" for a token: str(None) is "None"
PyFormat(x) == IF x = None THEN "None" ELSE x

\* requests.post(...) / requests.request(...) raising before any response
Fault == [kind |-> "fault"]

AuthBody(json, has_result, has_token, tok) ==
    [json |-> json, has_result |-> has_result, has_token |-> has_token, token |-> tok]

\* answers of POST /security/authenticate
AuthResponses ==
    {Fault}
    \cup {[kind |-> "http", status |-> 200, body |-> AuthBody(TRUE, TRUE, TRUE, t)] : t \in Tokens}
    \cup {[kind |-> "http", status |-> 200, body |-> AuthBody(TRUE, TRUE, FALSE, None)],
          [kind |-> "http", status |-> 200, body |-> AuthBody(TRUE, FALSE, FALSE, None)],
          [kind |-> "http", status |-> 200, body |-> AuthBody(FALSE, FALSE, FALSE, None)],
          [kind |-> "http", status |-> 401, body |-> AuthBody(TRUE, FALSE, FALSE, None)],
          [kind |-> "http", status |-> 500, body |-> AuthBody(FALSE, FALSE, FALSE, None)]}

\* answers of a resource endpoint: a body is JSON text of a value, or not JSON
TargetResponses ==
    {Fault}
    \cup {[kind |-> "http", status |-> 200, body |-> [json |-> TRUE, val |-> p]] : p \in {"P1", "P2"}}
    \cup {[kind |-> "http", status |-> 200, body |-> [json |-> FALSE, val |-> None]],
          [kind |-> "http", status |-> 201, body |-> [json |-> TRUE, val |-> "P1"]],
          [kind |-> "http", status |-> 401, body |-> [json |-> TRUE, val |-> "unauthorized"]],
          [kind |-> "http", status |-> 404, body |-> [json |-> TRUE, val |-> "not found"]],
          [kind |-> "http", status |-> 500, body |-> [json |-> FALSE, val |-> None]]}

\* the endpoints of the resource getters and of authenticate
ExperimentsPath ==
    <<"/", "c", "o", "r", "e", "/", "e", "x", "p", "e", "r", "i", "m", "e", "n", "t", "s">>
DataPath == <<"/", "c", "o", "r", "e", "/", "d", "a", "t", "a">>
AuthenticatePath ==
    <<"/", "s", "e", "c", "u", "r", "i", "t", "y", "/", "a", "u", "t", "h", "e", "n", "t",
      "i", "c", "a", "t", "e">>

\* the (method, endpoint, params, data) the resource getters pass to
\* _make_request: get_experiments with its default pagination, and post_data
Requests ==
    {[method |-> "GET", endpoint |-> ExperimentsPath,
      params |-> "{page: 0, page_size: 20}", data |-> None],
     [method |-> "POST", endpoint |-> DataPath,
      params |-> None, data |-> "[row]"]}

NoResponse == [kind |-> "none"]
NoRequest == [method |-> None, endpoint |-> <<>>, params |-> None, data |-> None]

-----------------------------------------------------------------------------
(* The session: OpenSilexClient.authenticate and OpenSilexClient._make_request *)

\* self.headers[name] = value
SetHeader(hdrs, name, value) ==
    [h \in (DOMAIN hdrs) \cup {name} |-> IF h = name THEN value ELSE hdrs[h]]

\* authenticate_try with the header built from the token held before the call
authenticate_try_stale_header(resp, tok, hdrs) ==
    IF resp.kind = "fault"
    THEN [exc |-> TRUE, ret |-> FALSE, token |-> tok, headers |-> hdrs]
    ELSE IF resp.status = 200
         THEN IF resp.body.json /\ resp.body.has_result /\ resp.body.has_token
              THEN [exc |-> FALSE, ret |-> TRUE, token |-> resp.body.token,
                    headers |-> SetHeader(hdrs, "Authorization",
                                          IF tok = None THEN "Bearer None"
                                          ELSE "Bearer " \o tok)]
              ELSE [exc |-> TRUE, ret |-> FALSE, token |-> tok, headers |-> hdrs]
         ELSE [exc |-> FALSE, ret |-> FALSE, token |-> tok, headers |-> hdrs]

\* The try block of authenticate(): the call of the authentication endpoint and
\* the handling of its answer.  exc: an exception left the block (a transport
\* fault, response.json() on a body that is not JSON, or a KeyError of
\* result["result"]["token"]); nothing has been assigned when that happens.
authenticate_try(resp, tok, hdrs) ==
    IF resp.kind = "fault"
    THEN [exc |-> TRUE, ret |-> FALSE, token |-> tok, headers |-> hdrs]
    ELSE IF resp.status = 200
         THEN IF resp.body.json /\ resp.body.has_result /\ resp.body.has_token
              THEN [exc |-> FALSE, ret |-> TRUE, token |-> resp.body.token,
                    headers |-> SetHeader(hdrs, "Authorization",
                                          "Bearer " \o PyFormat(resp.body.token))]
              ELSE [exc |-> TRUE, ret |-> FALSE, token |-> tok, headers |-> hdrs]
         ELSE [exc |-> FALSE, ret |-> FALSE, token |-> tok, headers |-> hdrs]

\* authenticate() dropping the token and the header when it fails
authenticate_clears(resp, tok, hdrs) ==
    LET r == authenticate_try(resp, tok, hdrs)
    IN  IF r.exc \/ ~r.ret
        THEN [exc |-> FALSE, ret |-> FALSE, token |-> None,
              headers |-> [h \in (DOMAIN hdrs) \ {"Authorization"} |-> hdrs[h]]]
        ELSE r

\* authenticate(): the try block under `except Exception: return False`
authenticate(resp, tok, hdrs) ==
    LET r == authenticate_try(resp, tok, hdrs)
    IN  IF r.exc THEN [r EXCEPT !.exc = FALSE, !.ret = FALSE] ELSE r

\* the value an authenticate() call hands to its caller
AuthReturn(a) == IF a.exc THEN Raised ELSE PyBool(a.ret)

\* handle_response taking every 2xx status for a success
handle_response_any_2xx(resp) ==
    IF resp.status >= 200 /\ resp.status < 300
    THEN IF resp.body.json THEN resp.body.val ELSE Raised
    ELSE None

\* `if response.status_code == 200: return response.json() / else: return None`;
\* Raised when response.json() raises
handle_response(resp) ==
    IF resp.status = 200
    THEN IF resp.body.json THEN resp.body.val ELSE Raised
    ELSE None

\* _make_request without its except clause
make_request_no_except(x) == x

\* `except Exception as e: ... return None` around the body of _make_request
make_request_except(x) == IF x = Raised THEN None ELSE x

\* the token of an authentication answer that carries one with status 200
AcceptedToken(resp, old) ==
    IF resp.kind = "http" /\ resp.status = 200 /\ resp.body.json
       /\ resp.body.has_result /\ resp.body.has_token
    THEN resp.body.token ELSE old

\* an authentication answer the server gave with status 200 and a token
TokenAnswer(resp) ==
    /\ resp.kind = "http"
    /\ resp.status = 200
    /\ resp.body.json /\ resp.body.has_result /\ resp.body.has_token

\* no authenticate() call in the last step
NoAuthSent ==
    [sent |-> FALSE, first |-> FALSE, ok_before |-> FALSE, held |-> None, headers |-> <<>>]

\* headers=self.headers of the requests.post(...) of authenticate(), with the
\* Authorization entry left out
auth_headers_fresh == [h \in (DOMAIN headers) \ {"Authorization"} |-> headers[h]]

\* headers=self.headers of the requests.post(...) of authenticate()
auth_headers == headers

\* a step without an authenticate() call
NoAuthStep ==
    /\ authSent' = NoAuthSent
    /\ UNCHANGED <<authTried, authOk>>

\* a step with an authenticate() call answered resp: what was sent, whether it
\* was the first authentication of the session, whether one had been accepted
AuthStep(resp) ==
    /\ authSent' = [sent |-> TRUE, first |-> ~authTried, ok_before |-> authOk,
                    held |-> token, headers |-> auth_headers]
    /\ authTried' = TRUE
    /\ authOk' = (authOk \/ TokenAnswer(resp))

\* json=auth_data of authenticate()
auth_data == "{identifier: " \o username \o ", password: " \o password \o "}"

AuthCall(resp) ==
    [ep |-> "auth", method |-> "POST", path |-> AuthenticatePath,
     url |-> base_url \o AuthenticatePath, params |-> None, json |-> auth_data,
     headers |-> auth_headers, resp |-> resp]

TargetCall(resp) ==
    [ep |-> "target", method |-> req.method, path |-> req.endpoint,
     url |-> base_url \o req.endpoint, params |-> req.params, json |-> req.data,
     headers |-> headers, resp |-> resp]

Init ==
    /\ token = None
    /\ headers = ("Content-Type" :> "application/json")
    /\ pc = "idle"
    /\ req = NoRequest
    /\ response = NoResponse
    /\ result = NoCall
    /\ authRet = NoCall
    /\ lastAuth = NoResponse
    /\ calls = <<>>
    /\ heldAtCall = FALSE
    /\ lastOkToken = None
    /\ okAtCall = None
    /\ authSent = [sent |-> FALSE, first |-> FALSE, ok_before |-> FALSE,
                   held |-> None, headers |-> <<>>]
    /\ authTried = FALSE
    /\ authOk = FALSE
    /\ base_url = init_base_url(PyNone)
    /\ username = DefaultUsername
    /\ password = DefaultPassword
    /\ gp_pc = "idle"
    /\ page = 0
    /\ all_results = <<>>
    /\ gp_calls = <<>>
    /\ gp_pages = <<>>
    /\ gp_ret = <<>>
    /\ remote = [kind |-> "any", n |-> 0]
    /\ cfg = [state |-> "none", lines |-> <<>>, given |-> TRUE]
    /\ hosts = <<>>
    /\ current_host = <<>>
    /\ lineno = 0
    /\ parse_pc = "idle"
    /\ host_call = [fn |-> "none", name |-> [kind |-> "None", v |-> <<>>],
                    base_url |-> [kind |-> "None", v |-> <<>>], use_ssh_config |-> TRUE,
                    ssh_config |-> [kind |-> "None", v |-> <<>>]]
    /\ host_ret = [kind |-> "no call", v |-> <<>>]
    /\ fc_call = [method |-> "none", arg |-> [kind |-> "None", v |-> <<>>]]
    /\ fc_sent = <<>>
    /\ fc_env = [kind |-> "no call", success |-> FALSE,
                 status_code |-> [kind |-> "None", n |-> 0], errors |-> <<>>,
                 message |-> [kind |-> "None", v |-> <<>>],
                 data |-> [kind |-> "None", v |-> <<>>]]
    /\ fc_ret = [kind |-> "no call", success |-> FALSE,
                 status_code |-> [kind |-> "None", n |-> 0], errors |-> <<>>,
                 message |-> [kind |-> "None", v |-> <<>>],
                 data |-> [kind |-> "None", v |-> <<>>]]
    /\ fc_pc = "idle"
    /\ a_pc = "idle"
    /\ a_token = "<None>"
    /\ a_uris = <<>>
    /\ a_tasks = <<>>
    /\ a_log = <<>>
    /\ a_ret = [kind |-> "no call", v |-> <<>>]
    /\ b_pc = "idle"
    /\ data_list = <<>>
    /\ b_i = 0
    /\ success_count = 0
    /\ b_errors = <<>>
    /\ b_posts = <<>>

\* OpenSilexClient(base_url=url, username=..., password=...,
\* use_ssh_config=False): a new session replaces the one in use
NewSession(url, cred) ==
    /\ pc = "idle"
    /\ base_url' = init_base_url(url)
    /\ username' = cred.username
    /\ password' = cred.password
    /\ token' = None
    /\ headers' = ("Content-Type" :> "application/json")
    /\ req' = NoRequest
    /\ response' = NoResponse
    /\ result' = NoCall
    /\ authRet' = NoCall
    /\ lastAuth' = NoResponse
    /\ authSent' = NoAuthSent
    /\ authTried' = FALSE
    /\ authOk' = FALSE
    /\ calls' = <<>>
    /\ heldAtCall' = FALSE
    /\ lastOkToken' = None
    /\ okAtCall' = None
    /\ UNCHANGED <<pc, pageVars, laterVars>>

\* a caller invokes authenticate() directly
Authenticate(resp) ==
    /\ pc = "idle"
    /\ LET a == authenticate(resp, token, headers)
       IN  /\ token' = a.token
           /\ headers' = a.headers
           /\ authRet' = AuthReturn(a)
    /\ lastAuth' = resp
    /\ AuthStep(resp)
    /\ lastOkToken' = AcceptedToken(resp, lastOkToken)
    /\ UNCHANGED <<pc, req, response, result, calls, heldAtCall, okAtCall, accountVars, pageVars, laterVars>>

\* _make_request without the `if not self.token:` test
MakeRequest_no_token_test(r) ==
    /\ pc = "idle"
    /\ req' = r
    /\ calls' = <<>>
    /\ response' = NoResponse
    /\ result' = Pending
    /\ authRet' = NoCall
    /\ lastAuth' = NoResponse
    /\ NoAuthStep
    /\ heldAtCall' = Truthy(token)
    /\ okAtCall' = lastOkToken
    /\ pc' = "send"
    /\ UNCHANGED <<token, headers, lastOkToken, accountVars, pageVars, laterVars>>

\* entry of _make_request: `if not self.token:` decides whether to authenticate
MakeRequest(r) ==
    /\ pc = "idle"
    /\ req' = r
    /\ calls' = <<>>
    /\ response' = NoResponse
    /\ result' = Pending
    /\ authRet' = NoCall
    /\ lastAuth' = NoResponse
    /\ NoAuthStep
    /\ heldAtCall' = Truthy(token)
    /\ okAtCall' = lastOkToken
    /\ pc' = IF ~Truthy(token) THEN "auth0" ELSE "send"
    /\ UNCHANGED <<token, headers, lastOkToken, accountVars, pageVars, laterVars>>

\* `if not self.authenticate(): return None`, outside the try block
InitialAuth(resp) ==
    /\ pc = "auth0"
    /\ LET a == authenticate(resp, token, headers)
       IN  /\ token' = a.token
           /\ headers' = a.headers
           /\ authRet' = AuthReturn(a)
           /\ IF a.exc
              THEN pc' = "idle" /\ result' = Raised
              ELSE IF a.ret
                   THEN pc' = "send" /\ result' = result
                   ELSE pc' = "idle" /\ result' = None
    /\ calls' = Append(calls, AuthCall(resp))
    /\ lastAuth' = resp
    /\ AuthStep(resp)
    /\ lastOkToken' = AcceptedToken(resp, lastOkToken)
    /\ UNCHANGED <<req, response, heldAtCall, okAtCall, accountVars, pageVars, laterVars>>

\* the first request re-authenticating on every error status, not only on 401
SendRequest_reauth_on_error(resp) ==
    /\ pc = "send"
    /\ calls' = Append(calls, TargetCall(resp))
    /\ authRet' = NoCall
    /\ lastAuth' = NoResponse
    /\ NoAuthStep
    /\ IF resp.kind = "fault"
       THEN /\ pc' = "idle"
            /\ result' = make_request_except(Raised)
            /\ response' = response
       ELSE /\ response' = resp
            /\ IF resp.status >= 400
               THEN pc' = "reauth" /\ result' = result
               ELSE pc' = "idle" /\ result' = make_request_except(handle_response(resp))
    /\ UNCHANGED <<token, headers, req, heldAtCall, lastOkToken, okAtCall, accountVars, pageVars, laterVars>>

\* the first requests.request(...) and the test of its status
SendRequest(resp) ==
    /\ pc = "send"
    /\ calls' = Append(calls, TargetCall(resp))
    /\ authRet' = NoCall
    /\ lastAuth' = NoResponse
    /\ NoAuthStep
    /\ IF resp.kind = "fault"
       THEN /\ pc' = "idle"
            /\ result' = make_request_except(Raised)
            /\ response' = response
       ELSE /\ response' = resp
            /\ IF resp.status = 401
               THEN pc' = "reauth" /\ result' = result
               ELSE pc' = "idle" /\ result' = make_request_except(handle_response(resp))
    /\ UNCHANGED <<token, headers, req, heldAtCall, lastOkToken, okAtCall, accountVars, pageVars, laterVars>>

\* the re-authentication with its result ignored: the request is retried anyway
Reauth_ignores_failure(resp) ==
    /\ pc = "reauth"
    /\ LET a == authenticate(resp, token, headers)
       IN  /\ token' = a.token
           /\ headers' = a.headers
           /\ authRet' = AuthReturn(a)
           /\ IF a.exc
              THEN pc' = "idle" /\ result' = make_request_except(Raised)
              ELSE pc' = "retry" /\ result' = result
    /\ calls' = Append(calls, AuthCall(resp))
    /\ lastAuth' = resp
    /\ AuthStep(resp)
    /\ lastOkToken' = AcceptedToken(resp, lastOkToken)
    /\ UNCHANGED <<req, response, heldAtCall, okAtCall, accountVars, pageVars, laterVars>>

\* `if self.authenticate():` after a 401, inside the try block
Reauth(resp) ==
    /\ pc = "reauth"
    /\ LET a == authenticate(resp, token, headers)
       IN  /\ token' = a.token
           /\ headers' = a.headers
           /\ authRet' = AuthReturn(a)
           /\ IF a.exc
              THEN pc' = "idle" /\ result' = make_request_except(Raised)
              ELSE IF a.ret
                   THEN pc' = "retry" /\ result' = result
                   ELSE /\ pc' = "idle"
                        /\ result' = make_request_except(handle_response(response))
    /\ calls' = Append(calls, AuthCall(resp))
    /\ lastAuth' = resp
    /\ AuthStep(resp)
    /\ lastOkToken' = AcceptedToken(resp, lastOkToken)
    /\ UNCHANGED <<req, response, heldAtCall, okAtCall, accountVars, pageVars, laterVars>>

\* the retry with its answer left out of `response`: the 401 is handled again
Retry_keeps_old_response(resp) ==
    /\ pc = "retry"
    /\ calls' = Append(calls, TargetCall(resp))
    /\ authRet' = NoCall
    /\ lastAuth' = NoResponse
    /\ NoAuthStep
    /\ pc' = "idle"
    /\ response' = response
    /\ IF resp.kind = "fault"
       THEN result' = make_request_except(Raised)
       ELSE result' = make_request_except(handle_response(response))
    /\ UNCHANGED <<token, headers, req, heldAtCall, lastOkToken, okAtCall, accountVars, pageVars, laterVars>>

\* the retry handling a second 401 like the first: re-authenticate and retry again
Retry_again_on_401(resp) ==
    /\ pc = "retry"
    /\ calls' = Append(calls, TargetCall(resp))
    /\ authRet' = NoCall
    /\ lastAuth' = NoResponse
    /\ NoAuthStep
    /\ IF resp.kind = "fault"
       THEN pc' = "idle" /\ result' = make_request_except(Raised) /\ response' = response
       ELSE /\ response' = resp
            /\ IF resp.status = 401
               THEN pc' = "reauth" /\ result' = result
               ELSE pc' = "idle" /\ result' = make_request_except(handle_response(resp))
    /\ UNCHANGED <<token, headers, req, heldAtCall, lastOkToken, okAtCall, accountVars, pageVars, laterVars>>

\* the retry sent with a copy of the headers taken before the re-authentication
Retry_with_rejected_token(resp) ==
    /\ pc = "retry"
    /\ calls' = Append(calls, [TargetCall(resp) EXCEPT
                                  !.headers = calls[Len(calls) - 1].headers])
    /\ authRet' = NoCall
    /\ lastAuth' = NoResponse
    /\ NoAuthStep
    /\ pc' = "idle"
    /\ IF resp.kind = "fault"
       THEN result' = make_request_except(Raised) /\ response' = response
       ELSE response' = resp /\ result' = make_request_except(handle_response(resp))
    /\ UNCHANGED <<token, headers, req, heldAtCall, lastOkToken, okAtCall, accountVars, pageVars, laterVars>>

\* the second requests.request(...), then the common tail of _make_request
Retry(resp) ==
    /\ pc = "retry"
    /\ calls' = Append(calls, TargetCall(resp))
    /\ authRet' = NoCall
    /\ lastAuth' = NoResponse
    /\ NoAuthStep
    /\ pc' = "idle"
    /\ IF resp.kind = "fault"
       THEN result' = make_request_except(Raised) /\ response' = response
       ELSE response' = resp /\ result' = make_request_except(handle_response(resp))
    /\ UNCHANGED <<token, headers, req, heldAtCall, lastOkToken, okAtCall, accountVars, pageVars, laterVars>>

Next ==
    \/ \E a \in ConstructorArgs : NewSession(a.url, a.cred)
    \/ \E resp \in AuthResponses : Authenticate(resp)
    \/ \E r \in Requests : MakeRequest(r)
    \/ \E resp \in AuthResponses : InitialAuth(resp)
    \/ \E resp \in TargetResponses : SendRequest(resp)
    \/ \E resp \in AuthResponses : Reauth(resp)
    \/ \E resp \in TargetResponses : Retry(resp)

Spec == Init /\ [][Next]_vars

-----------------------------------------------------------------------------
(* Reading the record of one _make_request call *)

\* the call has returned to its caller
Returned == pc = "idle" /\ result # NoCall

IsTarget(c) == c.ep = "target"
IsAuth(c) == c.ep = "auth"

HasStatus(resp, st) == resp.kind = "http" /\ resp.status = st

\* positions in `calls` of the calls to the target endpoint / to the
\* authenticate endpoint
TargetIdx == {i \in 1..Len(calls) : IsTarget(calls[i])}
AuthIdx == {i \in 1..Len(calls) : IsAuth(calls[i])}

\* re-authentications: authenticate calls that follow a call to the target
ReauthIdx == {i \in AuthIdx : \E j \in TargetIdx : j < i}

\* initial authentications: authenticate calls before any call to the target
InitialAuthIdx == AuthIdx \ ReauthIdx

FirstTarget == CHOOSE i \in TargetIdx : \A j \in TargetIdx : i <= j

\* positions of the target calls that were answered (no transport fault)
AnsweredIdx == {i \in TargetIdx : calls[i].resp.kind = "http"}
LastAnswered == CHOOSE i \in AnsweredIdx : \A j \in AnsweredIdx : j <= i

-----------------------------------------------------------------------------
(* Claims about the session *)

\* C1 (single retry on expiry): a _make_request call entered with a token held,
\* whose first target call is answered 401, whose re-authentication is answered
\* 200 with a token and whose later target calls are answered 200 with a JSON
\* body, returns after exactly 2 target calls and 1 authenticate call, and
\* returns the decoded body of the second target response.
C1_SingleRetryOnExpiry ==
    ( /\ Returned
      /\ heldAtCall
      /\ TargetIdx # {}
      /\ HasStatus(calls[FirstTarget].resp, 401)
      /\ \A i \in AuthIdx : TokenAnswer(calls[i].resp)
      /\ \A i \in TargetIdx \ {FirstTarget} :
            HasStatus(calls[i].resp, 200) /\ calls[i].resp.body.json )
    => /\ Cardinality(TargetIdx) = 2
       /\ Cardinality(AuthIdx) = 1
       /\ Len(calls) = 3
       /\ IsTarget(calls[1]) /\ IsAuth(calls[2]) /\ IsTarget(calls[3])
       /\ result = calls[3].resp.body.val

C1_Witness ==
    /\ Returned
    /\ heldAtCall
    /\ Len(calls) = 3
    /\ HasStatus(calls[1].resp, 401)
    /\ TokenAnswer(calls[2].resp)
    /\ HasStatus(calls[3].resp, 200)
    /\ result = "P2"

\* C2 (no retry storm): whatever the server answers, one _make_request call
\* issues at most 2 calls to the target endpoint and at most 1
\* re-authentication (and at most 1 initial authentication, only when no token
\* was held); answered 401, re-authentication 200 with a token, 401, it returns
\* None after exactly 2 target calls and 1 re-authentication.
C2_NoRetryStorm ==
    /\ Cardinality(TargetIdx) <= 2
    /\ Cardinality(ReauthIdx) <= 1
    /\ Cardinality(InitialAuthIdx) <= (IF heldAtCall THEN 0 ELSE 1)
    /\ ( ( /\ Returned
           /\ TargetIdx # {}
           /\ \A i \in TargetIdx : HasStatus(calls[i].resp, 401)
           /\ \A i \in ReauthIdx : TokenAnswer(calls[i].resp) )
         => /\ Cardinality(TargetIdx) = 2
            /\ Cardinality(ReauthIdx) = 1
            /\ result = None )

C2_Witness ==
    /\ Returned
    /\ Cardinality(TargetIdx) = 2
    /\ \A i \in TargetIdx : HasStatus(calls[i].resp, 401)
    /\ Cardinality(ReauthIdx) = 1
    /\ result = None

\* C3 as stated: whenever authenticate() has returned False the session holds
\* no token and no Authorization header.
C3_FailedAuthLeavesUnauthenticated ==
    authRet = "False" => token = None /\ "Authorization" \notin DOMAIN headers

\* C3 (amended): whenever authenticate() returns False (non-200 status, a 200
\* body without result.token, or a transport fault) it leaves the token and
\* the header set exactly as they were before the call, so a token held before
\* a failed re-authentication is still held after it; authenticate() never
\* raises, and it returns False on every answer but a 200 carrying a token.
C3_FailedAuthKeepsSession ==
    [][ /\ authRet' # Raised
        /\ (authRet' = "False" => token' = token /\ headers' = headers)
        /\ (lastAuth' # NoResponse =>
               (authRet' = "False" <=> ~TokenAnswer(lastAuth'))) ]_vars

C3_Witness ==
    /\ authRet = "False"
    /\ Truthy(token)
    /\ "Authorization" \in DOMAIN headers
    /\ lastAuth.kind = "fault"

\* the token of the last accepted authentication before call i of the log
PrevAccepted(i) ==
    LET before == {j \in AuthIdx : j < i /\ TokenAnswer(calls[j].resp)}
    IN  IF before = {} THEN okAtCall
        ELSE calls[CHOOSE j \in before : \A k \in before : k <= j].resp.body.token

\* an authentication was accepted before call i of the log: within the call, or
\* earlier (a token was held when the call was entered)
AcceptedBefore(i) ==
    heldAtCall \/ \E j \in AuthIdx : j < i /\ TokenAnswer(calls[j].resp)

\* C4 (auth round-trip): after authenticate() has received 200 with token T it
\* has returned True, the token stored is T and the Authorization header is
\* "Bearer T"; every call _make_request sends to the target endpoint carries
\* an Authorization header, and it is "Bearer T" for the token T of the last
\* successful authentication before that call.
C4_AuthRoundTrip ==
    /\ (lastAuth # NoResponse /\ TokenAnswer(lastAuth)) =>
          /\ authRet = "True"
          /\ token = lastAuth.body.token
          /\ "Authorization" \in DOMAIN headers
          /\ headers["Authorization"] = "Bearer " \o PyFormat(lastAuth.body.token)
    /\ \A i \in TargetIdx :
          /\ "Authorization" \in DOMAIN calls[i].headers
          /\ AcceptedBefore(i)
          /\ calls[i].headers["Authorization"] = "Bearer " \o PyFormat(PrevAccepted(i))

C4_Witness ==
    /\ Returned
    /\ Len(calls) = 3
    /\ IsTarget(calls[1]) /\ calls[1].headers["Authorization"] = "Bearer T1"
    /\ IsAuth(calls[2]) /\ TokenAnswer(calls[2].resp) /\ calls[2].resp.body.token = "T2"
    /\ IsTarget(calls[3]) /\ calls[3].headers["Authorization"] = "Bearer T2"

\* C5: a _make_request call entered with no token held calls authenticate()
\* before any call to the target endpoint; if that authentication fails the
\* call returns None at once, with no call to the target endpoint.
C5_AuthenticateFirst ==
    (~heldAtCall /\ (pc # "idle" \/ Returned)) =>
        /\ (calls = <<>> => pc = "auth0")
        /\ (calls # <<>> =>
               /\ IsAuth(calls[1])
               /\ (~TokenAnswer(calls[1].resp) =>
                      /\ pc = "idle"
                      /\ result = None
                      /\ Len(calls) = 1
                      /\ TargetIdx = {}))

C5_Witness ==
    /\ Returned
    /\ ~heldAtCall
    /\ Len(calls) = 1
    /\ IsAuth(calls[1])
    /\ HasStatus(calls[1].resp, 401)
    /\ result = None

\* C6: when the target endpoint answers 401 and the re-authentication that
\* follows fails (non-200 status, a 200 without token, or a transport fault),
\* _make_request returns None after exactly 1 target call and exactly 1
\* re-authentication call: the target request is not retried.
C6_GiveUpAfterFailedReauth ==
    \A i \in ReauthIdx :
        ~TokenAnswer(calls[i].resp) =>
            /\ pc = "idle"
            /\ result = None
            /\ Len(calls) = i
            /\ Cardinality(TargetIdx) = 1
            /\ Cardinality(ReauthIdx) = 1
            /\ HasStatus(calls[FirstTarget].resp, 401)

C6_Witness ==
    /\ Returned
    /\ Len(calls) = 2
    /\ IsTarget(calls[1]) /\ HasStatus(calls[1].resp, 401)
    /\ IsAuth(calls[2]) /\ calls[2].resp.kind = "fault"
    /\ result = None

\* a call that met a transport fault, or a 200 whose body is not JSON
Undecodable(c) ==
    \/ c.resp.kind = "fault"
    \/ HasStatus(c.resp, 200) /\ ~c.resp.body.json

\* C7: _make_request never lets an exception reach its caller: a transport
\* fault, or a body that is decoded and is not JSON, in the initial
\* authentication, the original target call, the re-authentication or the
\* retry ends the call with the result None.
C7_NoExceptionEscapes ==
    /\ result # Raised
    /\ authRet # Raised
    /\ \A i \in 1..Len(calls) :
          Undecodable(calls[i]) => pc = "idle" /\ result = None /\ Len(calls) = i

\* the four places, each hit by a fault or by a body that is not JSON
C7_Witness ==
    /\ Returned
    /\ ~heldAtCall
    /\ Len(calls) = 4
    /\ Undecodable(calls[4])
    /\ calls[4].resp.kind = "http"
    /\ result = None

\* what response.json() yields for a body that is JSON
Decoded(resp) == resp.body.val

\* a first target answer with a status other than 200 and 401 leads to no
\* re-authentication and no retry: exactly 1 target call
NoRetryOnOtherStatus ==
    (Returned /\ TargetIdx # {} /\ calls[FirstTarget].resp.kind = "http"
     /\ calls[FirstTarget].resp.status # 401)
    => Cardinality(TargetIdx) = 1 /\ ReauthIdx = {}

\* C8 as stated: _make_request returns the decoded JSON body if and only if the
\* last response received from the target endpoint has status exactly 200, and
\* None for every other final status; a non-401 error status triggers neither
\* re-authentication nor retry.
C8_BodyIffStatus200 ==
    /\ (Returned /\ AnsweredIdx # {}) =>
          LET last == calls[LastAnswered].resp
          IN  /\ (last.body.json /\ result = Decoded(last)) <=> last.status = 200
              /\ last.status # 200 => result = None
    /\ NoRetryOnOtherStatus

\* C8 (amended): _make_request returns the decoded JSON body if and only if the
\* last response received from the target endpoint has status exactly 200 and
\* a body that decodes as JSON; for every other final status (201, 4xx, 5xx, an
\* unrecovered 401), for a 200 whose body is not JSON, and when no response
\* was received, it returns None; a non-401 error status triggers neither
\* re-authentication nor retry, so exactly 1 target call is made.
C8_BodyIffDecodable200 ==
    /\ Returned =>
          IF AnsweredIdx # {}
             /\ calls[LastAnswered].resp.status = 200
             /\ calls[LastAnswered].resp.body.json
          THEN result = Decoded(calls[LastAnswered].resp)
          ELSE result = None
    /\ NoRetryOnOtherStatus

C8_Witness ==
    /\ Returned
    /\ Len(calls) = 1
    /\ IsTarget(calls[1])
    /\ HasStatus(calls[1].resp, 200)
    /\ ~calls[1].resp.body.json
    /\ result = None

-----------------------------------------------------------------------------
(* Pagination: OpenSilexClient.get_all_pages *)

\* `page_size = 50  # Larger page size for efficiency`
page_size == 50

\* most invocations of the listing method in one get_all_pages call explored
MaxPages == 3

\* number of distinct items the remote listing holds
NItems == 3

\* what the listing method (get_experiments, get_variables, ...) returns:
\* None when its _make_request gave nothing, else the list under "result"
NonePage == [kind |-> "None", items |-> <<>>]
ListPage(items) == [kind |-> "list", items |-> items]

\* a page of n items; items repeat inside a page and from page to page
MkItems(n, first) == [j \in 1..n |-> (first + j) % NItems]

PageLens == {0, 13, page_size - 1, page_size, page_size + 1}

PageInputs ==
    {NonePage} \cup {ListPage(MkItems(n, f)) : n \in PageLens, f \in 0..1}

\* Python truthiness of the returned value (`if not results: break`)
TruthyResults(results) == results.kind = "list" /\ Len(results.items) > 0

\* the stop test with <= for <
short_page_le(results) == Len(results.items) <= page_size

\* `if len(results) < page_size: break`
short_page(results) == Len(results.items) < page_size

\* extend() keeping out the items already collected
extend_dedup(all, results) ==
    all \o SelectSeq(results.items, LAMBDA x : \A k \in 1..Len(all) : all[k] # x)

\* `all_results.extend(results)`
extend(all, results) == all \o results.items

\* the page counter left where it is
next_page_stuck(p) == p

\* `page += 1`
next_page(p) == p + 1

\* entry of get_all_pages: `all_results = []`, `page = 0`
get_all_pages_entry ==
    /\ gp_pc \in {"idle", "done"}
    /\ gp_pc' = "loop"
    /\ all_results' = <<>>
    /\ page' = 0
    /\ gp_calls' = <<>>
    /\ gp_pages' = <<>>
    /\ gp_ret' = <<>>

\* get_all_pages is called on a listing method of any behaviour
GetAllPages ==
    /\ get_all_pages_entry
    /\ UNCHANGED <<sessionVars, laterVars>>

\* the loop giving up what it collected when the listing method returns None
loop_turn_discards_on_failure(results) ==
    /\ gp_pc = "loop"
    /\ gp_calls' = Append(gp_calls, [page |-> page, page_size |-> page_size])
    /\ gp_pages' = Append(gp_pages, results)
    /\ IF ~TruthyResults(results)
       THEN /\ gp_pc' = "done"
            /\ gp_ret' = IF results.kind = "None" THEN <<>> ELSE all_results
            /\ UNCHANGED <<all_results, page>>
       ELSE /\ all_results' = extend(all_results, results)
            /\ IF short_page(results)
               THEN gp_pc' = "done" /\ gp_ret' = all_results' /\ page' = page
               ELSE gp_pc' = "loop" /\ gp_ret' = gp_ret /\ page' = next_page(page)

\* one turn of `while True:`: the listing method is invoked with kwargs page
\* and page_size and returns `results`; a break is followed by the return
loop_turn(results) ==
    /\ gp_pc = "loop"
    /\ gp_calls' = Append(gp_calls, [page |-> page, page_size |-> page_size])
    /\ gp_pages' = Append(gp_pages, results)
    /\ IF ~TruthyResults(results)
       THEN /\ gp_pc' = "done"
            /\ gp_ret' = all_results
            /\ UNCHANGED <<all_results, page>>
       ELSE /\ all_results' = extend(all_results, results)
            /\ IF short_page(results)
               THEN gp_pc' = "done" /\ gp_ret' = all_results' /\ page' = page
               ELSE gp_pc' = "loop" /\ gp_ret' = gp_ret /\ page' = next_page(page)

\* a turn of the loop on a page of any content (at most MaxPages turns explored)
FetchPage(results) ==
    /\ Len(gp_calls) < MaxPages
    /\ loop_turn(results)
    /\ UNCHANGED <<sessionVars, laterVars>>

NextPages ==
    \/ GetAllPages
    \/ \E results \in PageInputs : FetchPage(results)

SpecPages == Init /\ [][NextPages]_vars

-----------------------------------------------------------------------------
(* Claims about pagination *)

\* a page that ends the loop: None, empty, or fewer items than page_size
EndingPage(p) == p.kind = "None" \/ Len(p.items) = 0 \/ Len(p.items) < 50

PageSizes == [i \in 1..Len(gp_pages) |-> Len(gp_pages[i].items)]

\* C9 (pagination stop condition): get_all_pages requests no page after the
\* first page that is None, empty or shorter than page_size, and returns
\* right after that page; pages of 50, 50 and 13 items give 113 items after
\* exactly 3 calls, an empty page 0 gives the empty sequence after 1 call.
C9_StopsAtFirstShortPage ==
    /\ \A i \in 1..Len(gp_pages) :
          EndingPage(gp_pages[i]) => i = Len(gp_pages) /\ gp_pc = "done"
    /\ gp_pc = "done" =>
          /\ gp_pages # <<>>
          /\ EndingPage(gp_pages[Len(gp_pages)])
          /\ Len(gp_calls) = Len(gp_pages)
    /\ (gp_pc = "done" /\ PageSizes = <<50, 50, 13>>) =>
          Len(gp_ret) = 113 /\ Len(gp_calls) = 3
    /\ (gp_pc \in {"loop", "done"} /\ gp_pages # <<>>
        /\ gp_pages[1].kind = "list" /\ Len(gp_pages[1].items) = 0) =>
          gp_pc = "done" /\ gp_ret = <<>> /\ Len(gp_calls) = 1

C9_Witness ==
    /\ gp_pc = "done"
    /\ PageSizes = <<50, 50, 13>>
    /\ gp_pages[3].kind = "list"
    /\ Len(gp_ret) = 113

C9_WitnessEmpty ==
    /\ gp_pc = "done"
    /\ gp_pages = <<ListPage(<<>>)>>
    /\ gp_ret = <<>>

\* the pages received, one after the other (None gives no item)
RECURSIVE Flatten(_)
Flatten(pages) ==
    IF pages = <<>> THEN <<>>
    ELSE Flatten(SubSeq(pages, 1, Len(pages) - 1)) \o pages[Len(pages)].items

RECURSIVE SumLens(_)
SumLens(pages) ==
    IF pages = <<>> THEN 0
    ELSE SumLens(Tail(pages)) + Len(Head(pages).items)

\* C10: get_all_pages invokes the listing method with page = 0, 1, 2, ...
\* consecutively and page_size = 50 on every call, and returns the pages it
\* received concatenated in page order, nothing removed: as many items as the
\* pages hold together, those of page i before those of page i+1.
C10_PagesInOrder ==
    /\ \A i \in 1..Len(gp_calls) : gp_calls[i] = [page |-> i - 1, page_size |-> 50]
    /\ gp_pc \in {"loop", "done"} => all_results = Flatten(gp_pages)
    /\ gp_pc = "done" =>
          /\ gp_ret = Flatten(gp_pages)
          /\ Len(gp_ret) = SumLens(gp_pages)

C10_Witness ==
    /\ gp_pc = "done"
    /\ Len(gp_calls) = 3
    /\ gp_calls[3].page = 2
    /\ Len(gp_ret) > 100
    /\ gp_ret[1] = gp_ret[4]
    /\ gp_ret[50] # gp_ret[51]

-----------------------------------------------------------------------------
(* get_all_pages against a remote listing of known behaviour *)

\* most items a remote listing holds
MaxRemoteItems == 110

Min(a, b) == IF a < b THEN a ELSE b

\* a remote that honours the page contract: page p of size ps of a listing of
\* n items holds the items p*ps+1 .. min(n, (p+1)*ps), none past the end
RemotePage(n, p, ps) ==
    LET k == IF p * ps >= n THEN 0 ELSE Min(ps, n - p * ps)
    IN  [j \in 1..k |-> (p * ps + j) % NItems]

Remotes ==
    {[kind |-> "honest", n |-> n] : n \in 0..MaxRemoteItems}
    \cup {[kind |-> "endless", n |-> 0]}

\* get_all_pages is called on the listing method of remote r
StartListing(r) ==
    /\ get_all_pages_entry
    /\ remote' = r
    /\ UNCHANGED <<sessionVars, hostVars, facadeVars, asyncVars, batchVars>>

\* a turn of the loop served by a remote that honours the page contract
FetchHonest ==
    /\ remote.kind = "honest"
    /\ loop_turn(ListPage(RemotePage(remote.n, page, page_size)))
    /\ UNCHANGED <<sessionVars, laterVars>>

\* a turn of the loop served by a remote that answers every request with a
\* full page (at most MaxPages turns explored)
FetchEndless ==
    /\ remote.kind = "endless"
    /\ Len(gp_calls) < MaxPages
    /\ loop_turn(ListPage(MkItems(page_size, page)))
    /\ UNCHANGED <<sessionVars, laterVars>>

NextListing ==
    \/ \E r \in Remotes : StartListing(r)
    \/ FetchHonest
    \/ FetchEndless

\* the loop is synchronous code: it goes on as soon as the listing method returns
SpecListing == Init /\ [][NextListing]_vars /\ WF_vars(FetchHonest)

CeilDiv(a, b) == (a + b - 1) \div b

\* C11 (pagination termination): against a remote that holds N items and
\* honours the page contract, get_all_pages makes at most ceil(N/page_size)+1
\* calls to the listing method and then returns (with the N items); against a
\* remote that answers every call with a full page it never returns: after
\* any number of calls it is still in its loop, about to ask for the next page.
C11_Termination ==
    /\ [](remote.kind = "honest" =>
            /\ Len(gp_calls) <= CeilDiv(remote.n, 50) + 1
            /\ (gp_pc = "done" => Len(gp_ret) = remote.n))
    /\ [](remote.kind = "endless" =>
            /\ gp_pc = "loop"
            /\ page = Len(gp_calls)
            /\ Len(all_results) = 50 * Len(gp_calls))
    /\ ((remote.kind = "honest" /\ gp_pc = "loop") ~> (gp_pc = "done"))

\* 100 items: two full pages and an empty one, ceil(100/50)+1 calls
C11_Witness ==
    /\ remote = [kind |-> "honest", n |-> 100]
    /\ gp_pc = "done"
    /\ Len(gp_calls) = 3
    /\ Len(gp_ret) = 100

C11_WitnessEndless ==
    /\ remote.kind = "endless"
    /\ Len(gp_calls) = MaxPages
    /\ gp_pc = "loop"

-----------------------------------------------------------------------------
(* Python strings, as sequences of characters *)

IsSpace(c) == c \in {" ", "\t"}

UpperCase == <<"A", "B", "C", "D", "E", "F", "G", "H", "I", "J", "K", "L", "M",
               "N", "O", "P", "Q", "R", "S", "T", "U", "V", "W", "X", "Y", "Z">>
LowerCase == <<"a", "b", "c", "d", "e", "f", "g", "h", "i", "j", "k", "l", "m",
               "n", "o", "p", "q", "r", "s", "t", "u", "v", "w", "x", "y", "z">>

LowerChar(c) ==
    IF \E i \in 1..Len(UpperCase) : UpperCase[i] = c
    THEN LowerCase[CHOOSE i \in 1..Len(UpperCase) : UpperCase[i] = c]
    ELSE c

\* str.lower()
Lower(s) == [i \in 1..Len(s) |-> LowerChar(s[i])]

RECURSIVE LStrip(_)
LStrip(s) == IF s # <<>> /\ IsSpace(Head(s)) THEN LStrip(Tail(s)) ELSE s

RECURSIVE RStrip(_)
RStrip(s) ==
    IF s # <<>> /\ IsSpace(s[Len(s)]) THEN RStrip(SubSeq(s, 1, Len(s) - 1)) ELSE s

\* str.strip()
Strip(s) == RStrip(LStrip(s))

\* str.startswith(prefix)
StartsWith(s, prefix) ==
    Len(s) >= Len(prefix) /\ SubSeq(s, 1, Len(prefix)) = prefix

\* `c in s` for a character c
Contains(s, c) == \E i \in 1..Len(s) : s[i] = c

\* length of the longest prefix of s without whitespace
WordLen(s) ==
    IF \E i \in 1..Len(s) : IsSpace(s[i])
    THEN (CHOOSE i \in 1..Len(s) :
             IsSpace(s[i]) /\ \A j \in 1..(i - 1) : ~IsSpace(s[j])) - 1
    ELSE Len(s)

\* str.split(): the words between runs of whitespace
RECURSIVE Split(_)
Split(s) ==
    LET t == LStrip(s)
    IN  IF t = <<>> THEN <<>>
        ELSE <<SubSeq(t, 1, WordLen(t))>>
             \o Split(SubSeq(t, WordLen(t) + 1, Len(t)))

\* str.split(None, 1): the first word, then the rest after the whitespace that
\* follows it (the rest keeps its inner and trailing whitespace)
Split1(s) ==
    LET t == LStrip(s)
        rest == LStrip(SubSeq(t, WordLen(t) + 1, Len(t)))
    IN  IF t = <<>> THEN <<>>
        ELSE IF rest = <<>> THEN <<SubSeq(t, 1, WordLen(t))>>
        ELSE <<SubSeq(t, 1, WordLen(t)), rest>>

\* d[k] = v on a dict
DictSet(d, k, v) == [x \in (DOMAIN d) \cup {k} |-> IF x = k THEN v ELSE d[x]]

EmptyDict == <<>>

-----------------------------------------------------------------------------
(* Host configuration: SSHConfigParser.parse_ssh_config *)

\* most lines of a configuration file
MaxLines == 3

\* lines a configuration file is made of, as read (the newline left out)
LineHostDemo == <<"H", "o", "s", "t", " ", "d", "e", "m", "o">>
LineHostVm == <<"h", "o", "s", "t", " ", " ", "v", "m">>
LineHostName ==
    <<" ", " ", " ", " ", "H", "o", "s", "t", "N", "a", "m", "e", " ",
      "1", "0", ".", "0", ".", "0", ".", "5">>
LinePort == <<" ", " ", " ", " ", "P", "o", "r", "t", " ", "2", "8", "0", "8", "1">>
LineUserTab == <<"\t", "U", "s", "e", "r", "\t", "b", "o", "b">>
LineKeyOnly == <<" ", "P", "o", "r", "t">>
LineBlank == <<" ", "\t">>
LineComment == <<"#", " ", "H", "o", "s", "t", " ", "x">>
LineTwoWords == <<"P", "o", "r", "t", " ", " ", "2", "2", " ", "x", " ">>

ConfigLines ==
    {LineHostDemo, LineHostVm, LineHostName, LinePort, LineUserTab, LineKeyOnly,
     LineBlank, LineComment, LineTwoWords}

RECURSIVE SeqsUpTo(_, _)
SeqsUpTo(S, n) ==
    IF n = 0 THEN {<<>>}
    ELSE LET shorter == SeqsUpTo(S, n - 1)
         IN  shorter \cup {Append(t, x) : t \in shorter, x \in S}

\* the file at config_path: missing, not readable, in a directory that may not
\* be searched, or a text
ConfigStates ==
    {[state |-> "missing", lines |-> <<>>], [state |-> "unreadable", lines |-> <<>>],
     [state |-> "noaccess", lines |-> <<>>]}
    \cup {[state |-> "text", lines |-> t] : t \in SeqsUpTo(ConfigLines, MaxLines)}

\* a call's file, and whether config_path was passed or left to default (None)
ConfigFiles ==
    {[state |-> c.state, lines |-> c.lines, given |-> g] :
        c \in ConfigStates, g \in BOOLEAN}

DefaultPathFiles == {c \in ConfigFiles : ~c.given}

KwHost == <<"h", "o", "s", "t", " ">>

\* the body of `for line in f:`; current_host is <<>> for None
parse_line(raw, hs, cur) ==
    LET line == Strip(raw)
    IN  IF line = <<>> \/ StartsWith(line, <<"#">>)
        THEN [hosts |-> hs, current_host |-> cur]
        ELSE IF StartsWith(Lower(line), KwHost)
        THEN [hosts |-> DictSet(hs, Split(line)[2], EmptyDict),
              current_host |-> Split(line)[2]]
        ELSE IF cur # <<>> /\ Contains(line, " ")
        THEN LET parts == Split1(line)
             IN  IF Len(parts) = 2
                 THEN [hosts |-> DictSet(hs, cur,
                                   DictSet(hs[cur], Lower(parts[1]), Strip(parts[2]))),
                       current_host |-> cur]
                 ELSE [hosts |-> hs, current_host |-> cur]
        ELSE [hosts |-> hs, current_host |-> cur]

\* what becomes of an exception raised by open(): `except FileNotFoundError`
\* and `except Exception` both log it and go on to `return hosts`
parse_except(exc) == "done"

NoHostCall ==
    [fn |-> "none", name |-> PyNone, base_url |-> PyNone, use_ssh_config |-> TRUE,
     ssh_config |-> PyNone]

\* `config_path.exists()` on the default path, before the try block: stat()
\* of a file in a directory that may not be searched fails with EACCES, which
\* pathlib re-raises or turns into False depending on the interpreter
exists_outcomes(state) ==
    IF state = "noaccess" THEN {"False", Raised}
    ELSE IF state = "missing" THEN {"False"}
    ELSE {"True"}

\* entry of parse_ssh_config(config_path): the default path is resolved only
\* `if config_path is None`
parse_entry(c) ==
    /\ cfg' = c
    /\ hosts' = EmptyDict
    /\ current_host' = <<>>
    /\ lineno' = 0
    /\ parse_pc' = IF c.given THEN "open" ELSE "resolve"

\* a caller invokes SSHConfigParser.parse_ssh_config(config_path)
ParseSshConfig(c) ==
    /\ host_call.fn = "none"
    /\ parse_entry(c)
    /\ host_call' = [NoHostCall EXCEPT !.fn = "parse_ssh_config"]
    /\ host_ret' = [kind |-> "no call", v |-> <<>>]
    /\ UNCHANGED <<sessionVars, pageVars, listingVars, facadeVars, asyncVars, batchVars>>

\* lines 36-44: `ssh_dir = Path.home() / ".ssh"`, `config_path.exists()`,
\* then `hosts = {}`, `current_host = None`
ResolvePath ==
    /\ parse_pc = "resolve"
    /\ \E o \in exists_outcomes(cfg.state) :
          parse_pc' = IF o = Raised THEN "raised" ELSE "open"
    /\ UNCHANGED <<cfg, hosts, current_host, lineno, host_call, host_ret>>
    /\ UNCHANGED <<sessionVars, pageVars, listingVars, facadeVars, asyncVars, batchVars>>

\* `with open(config_path, 'r') as f:`
OpenConfig ==
    /\ parse_pc = "open"
    /\ parse_pc' = IF cfg.state = "missing" THEN parse_except("FileNotFoundError")
                   ELSE IF cfg.state \in {"unreadable", "noaccess"}
                   THEN parse_except("PermissionError")
                   ELSE "loop"
    /\ UNCHANGED <<cfg, hosts, current_host, lineno, host_call, host_ret>>
    /\ UNCHANGED <<sessionVars, pageVars, listingVars, facadeVars, asyncVars, batchVars>>

\* one turn of `for line in f:`
ParseLine ==
    /\ parse_pc = "loop"
    /\ lineno < Len(cfg.lines)
    /\ LET r == parse_line(cfg.lines[lineno + 1], hosts, current_host)
       IN  hosts' = r.hosts /\ current_host' = r.current_host
    /\ lineno' = lineno + 1
    /\ UNCHANGED <<cfg, parse_pc, host_call, host_ret>>
    /\ UNCHANGED <<sessionVars, pageVars, listingVars, facadeVars, asyncVars, batchVars>>

\* the file is exhausted: `return hosts`
ParseReturn ==
    /\ parse_pc = "loop"
    /\ lineno = Len(cfg.lines)
    /\ parse_pc' = "done"
    /\ UNCHANGED <<cfg, hosts, current_host, lineno, host_call, host_ret>>
    /\ UNCHANGED <<sessionVars, pageVars, listingVars, facadeVars, asyncVars, batchVars>>

\* dict.get(key, default)
DictGet(d, k, default) == IF k \in DOMAIN d THEN PyStr(d[k]) ELSE default

AttrHostname == <<"h", "o", "s", "t", "n", "a", "m", "e">>
AttrHost == <<"h", "o", "s", "t">>

\* get_host_ip preferring the 'host' attribute
get_host_ip_host_first(host_name, ssh_config) ==
    IF host_name \in DOMAIN ssh_config
    THEN DictGet(ssh_config[host_name], AttrHost,
                 DictGet(ssh_config[host_name], AttrHostname, PyNone))
    ELSE PyNone

\* get_host_ip once ssh_config is a mapping
get_host_ip(host_name, ssh_config) ==
    IF host_name \in DOMAIN ssh_config
    THEN DictGet(ssh_config[host_name], AttrHostname,
                 DictGet(ssh_config[host_name], AttrHost, PyNone))
    ELSE PyNone

common_hosts ==
    <<
      <<"o", "p", "e", "n", "s", "i", "l", "e", "x">>,
      <<"o", "p", "e", "n", "s", "i", "l", "e", "x", "-", "v", "m">>,
      <<"o", "p", "e", "n", "s", "i", "l", "e", "x", "-", "d", "e", "v">>,
      <<"v", "m">>,
      <<"p", "h", "i", "s">>,
      <<"p", "h", "i", "s", "-", "v", "m">>,
      <<"p", "h", "i", "s", "-", "d", "e", "v">>,
      <<"p", "h", "i", "s", "-", "p", "r", "o", "d">>,
      <<"p", "h", "i", "s", "-", "t", "e", "s", "t">>
    >>

\* `for host in common_hosts: if host in ssh_config: ssh_host = host; break`
RECURSIVE first_common(_, _)
first_common(i, ssh_config) ==
    IF i > Len(common_hosts) THEN PyNone
    ELSE IF common_hosts[i] \in DOMAIN ssh_config THEN PyStr(common_hosts[i])
    ELSE first_common(i + 1, ssh_config)

UrlScheme == <<"h", "t", "t", "p", ":", "/", "/">>
UrlPort ==
    <<":", "2", "8", "0", "8", "1", "/", "r", "e", "s", "t">>

\* _get_base_url_from_ssh after its parse_ssh_config() call returned
get_base_url_from_ssh(ssh_host, ssh_config) ==
    LET h == IF ssh_host.kind = "None" THEN first_common(1, ssh_config) ELSE ssh_host
        vm_ip == get_host_ip(h.v, ssh_config)
    IN  IF h.kind = "str" /\ h.v # <<>> /\ h.v \in DOMAIN ssh_config
           /\ vm_ip.kind = "str" /\ vm_ip.v # <<>>
        THEN PyStr(UrlScheme \o vm_ip.v \o UrlPort)
        ELSE PyNone

\* arguments of the constructor and of get_host_ip
AliasVm == <<"v", "m">>
AliasOther == <<"d", "b">>
HostNames == {<<"d", "e", "m", "o">>, AliasVm, AliasOther}
SshHostArgs == {PyNone} \cup {PyStr(h) : h \in HostNames}

\* mappings handed to get_host_ip by its caller
AttrSets ==
    {[k \in K |-> IF k = AttrHost THEN <<"h", "1">> ELSE <<"1", "0", ".", "1">>] :
        K \in SUBSET {AttrHostname, AttrHost, <<"p", "o", "r", "t">>}}
Mappings ==
    {[a \in A |-> f[a]] : A \in SUBSET {<<"d", "e", "m", "o">>, AliasVm},
                           f \in [{<<"d", "e", "m", "o">>, AliasVm} -> AttrSets]}

\* OpenSilexClient(base_url, ssh_host=..., use_ssh_config=...): with no base
\* URL and use_ssh_config, _get_base_url_from_ssh calls parse_ssh_config()
NewClient(url, ssh_host, use_ssh_config, c) ==
    /\ host_call.fn = "none"
    /\ host_call' = [NoHostCall EXCEPT !.fn = "__init__", !.name = ssh_host,
                        !.base_url = url, !.use_ssh_config = use_ssh_config]
    /\ IF url.kind = "None" /\ use_ssh_config
       THEN /\ c \in DefaultPathFiles
            /\ parse_entry(c)
            /\ host_ret' = [kind |-> "pending", v |-> <<>>]
       ELSE /\ c = cfg
            /\ host_ret' = PyStr(init_base_url(url))
            /\ UNCHANGED <<cfg, hosts, current_host, lineno, parse_pc>>
    /\ UNCHANGED <<sessionVars, pageVars, listingVars, facadeVars, asyncVars, batchVars>>

\* parse_ssh_config() has returned to _get_base_url_from_ssh, or its exception
\* passes through _get_base_url_from_ssh and __init__, neither of which catches
NewClientReturn ==
    /\ host_call.fn = "__init__"
    /\ host_ret.kind = "pending"
    /\ parse_pc \in {"done", "raised"}
    /\ host_ret' = IF parse_pc = "raised" THEN [kind |-> "raised", v |-> <<>>]
                   ELSE PyStr(init_base_url(get_base_url_from_ssh(host_call.name, hosts)))
    /\ UNCHANGED <<cfg, hosts, current_host, lineno, parse_pc, host_call>>
    /\ UNCHANGED <<sessionVars, pageVars, listingVars, facadeVars, asyncVars, batchVars>>

\* get_host_ip(host_name, ssh_config) with a mapping passed in
GetHostIp(host_name, m) ==
    /\ host_call.fn = "none"
    /\ host_call' = [NoHostCall EXCEPT !.fn = "get_host_ip", !.name = PyStr(host_name),
                        !.ssh_config = [kind |-> "dict", v |-> m]]
    /\ host_ret' = get_host_ip(host_name, m)
    /\ UNCHANGED <<cfg, hosts, current_host, lineno, parse_pc>>
    /\ UNCHANGED <<sessionVars, pageVars, listingVars, facadeVars, asyncVars, batchVars>>

\* get_host_ip(host_name): `if ssh_config is None: ssh_config = parse_ssh_config()`
GetHostIpParsing(host_name, c) ==
    /\ host_call.fn = "none"
    /\ host_call' = [NoHostCall EXCEPT !.fn = "get_host_ip", !.name = PyStr(host_name)]
    /\ parse_entry(c)
    /\ host_ret' = [kind |-> "pending", v |-> <<>>]
    /\ UNCHANGED <<sessionVars, pageVars, listingVars, facadeVars, asyncVars, batchVars>>

GetHostIpReturn ==
    /\ host_call.fn = "get_host_ip"
    /\ host_ret.kind = "pending"
    /\ parse_pc \in {"done", "raised"}
    /\ host_ret' = IF parse_pc = "raised" THEN [kind |-> "raised", v |-> <<>>]
                   ELSE get_host_ip(host_call.name.v, hosts)
    /\ UNCHANGED <<cfg, hosts, current_host, lineno, parse_pc, host_call>>
    /\ UNCHANGED <<sessionVars, pageVars, listingVars, facadeVars, asyncVars, batchVars>>

\* re.split(r'\s+', s, 1): the text before the first run of whitespace and the
\* text after it, or s alone when it holds no whitespace
ReSplit1(s) ==
    IF WordLen(s) = Len(s) THEN <<s>>
    ELSE <<SubSeq(s, 1, WordLen(s)), LStrip(SubSeq(s, WordLen(s) + 1, Len(s)))>>

\* get_host.SSHConfigParser._parse: the body of `for line in f:`; host_entry is
\* <<>> for None; raised: `key, value = ...` got one part (ValueError)
get_host_parse_line(raw, hs, host_entry) ==
    LET line == Strip(raw)
    IN  IF line = <<>> \/ StartsWith(line, <<"#">>)
        THEN [raised |-> FALSE, hosts |-> hs, host_entry |-> host_entry]
        ELSE IF StartsWith(Lower(line), KwHost)
        THEN [raised |-> FALSE, hosts |-> DictSet(hs, Split(line)[2], EmptyDict),
              host_entry |-> Split(line)[2]]
        ELSE IF host_entry # <<>>
        THEN LET parts == ReSplit1(line)
             IN  IF Len(parts) = 2
                 THEN [raised |-> FALSE,
                       hosts |-> DictSet(hs, host_entry,
                                   DictSet(hs[host_entry], Lower(parts[1]), parts[2])),
                       host_entry |-> host_entry]
                 ELSE [raised |-> TRUE, hosts |-> hs, host_entry |-> host_entry]
        ELSE [raised |-> FALSE, hosts |-> hs, host_entry |-> host_entry]

\* the loop of _parse over the lines left; nothing catches inside _parse
RECURSIVE get_host_parse_lines(_, _, _)
get_host_parse_lines(lines, hs, host_entry) ==
    IF lines = <<>> THEN [kind |-> "dict", v |-> hs]
    ELSE LET r == get_host_parse_line(Head(lines), hs, host_entry)
         IN  IF r.raised THEN [kind |-> "raised", v |-> <<>>]
             ELSE get_host_parse_lines(Tail(lines), r.hosts, r.host_entry)

\* get_host.SSHConfigParser(): __init__ calls _parse, whose open() raises for a
\* file that is missing or may not be read
get_host_parse(c) ==
    IF c.state # "text" THEN [kind |-> "raised", v |-> <<>>]
    ELSE get_host_parse_lines(c.lines, EmptyDict, <<>>)

\* create_demo_variables.get_ssh_config_hosts: `except Exception` gives {}
get_ssh_config_hosts(c) ==
    IF get_host_parse(c).kind = "raised" THEN [kind |-> "dict", v |-> EmptyDict]
    ELSE get_host_parse(c)

\* a caller constructs get_host.SSHConfigParser() and reads get_all_hosts()
GetHostSSHConfigParser(c) ==
    /\ host_call.fn = "none"
    /\ host_call' = [NoHostCall EXCEPT !.fn = "get_host.SSHConfigParser"]
    /\ cfg' = c
    /\ host_ret' = get_host_parse(c)
    /\ UNCHANGED <<hosts, current_host, lineno, parse_pc>>
    /\ UNCHANGED <<sessionVars, pageVars, listingVars, facadeVars, asyncVars, batchVars>>

\* a caller invokes create_demo_variables.get_ssh_config_hosts()
GetSshConfigHosts(c) ==
    /\ host_call.fn = "none"
    /\ host_call' = [NoHostCall EXCEPT !.fn = "get_ssh_config_hosts"]
    /\ cfg' = c
    /\ host_ret' = get_ssh_config_hosts(c)
    /\ UNCHANGED <<hosts, current_host, lineno, parse_pc>>
    /\ UNCHANGED <<sessionVars, pageVars, listingVars, facadeVars, asyncVars, batchVars>>

\* the call is over; its locals are gone
HostCallOver ==
    /\ host_call.fn # "none"
    /\ parse_pc \in {"idle", "done", "raised"}
    /\ host_ret.kind # "pending"
    /\ cfg' = [state |-> "none", lines |-> <<>>, given |-> TRUE]
    /\ hosts' = EmptyDict
    /\ current_host' = <<>>
    /\ lineno' = 0
    /\ parse_pc' = "idle"
    /\ host_call' = NoHostCall
    /\ host_ret' = [kind |-> "no call", v |-> <<>>]
    /\ UNCHANGED <<sessionVars, pageVars, listingVars, facadeVars, asyncVars, batchVars>>

\* a call into the host resolver starts when none is running
HostCall ==
    /\ host_call.fn = "none"
    /\ \/ \E c \in ConfigFiles : ParseSshConfig(c)
       \/ \E u \in BaseUrlArgs, h \in SshHostArgs, b \in BOOLEAN,
             c \in DefaultPathFiles \cup {cfg} : NewClient(u, h, b, c)
       \/ \E h \in HostNames, m \in Mappings : GetHostIp(h, m)
       \/ \E h \in HostNames, c \in DefaultPathFiles : GetHostIpParsing(h, c)
       \/ \E c \in DefaultPathFiles : GetHostSSHConfigParser(c)
       \/ \E c \in DefaultPathFiles : GetSshConfigHosts(c)

NextHost ==
    \/ HostCall
    \/ ResolvePath
    \/ OpenConfig
    \/ ParseLine
    \/ ParseReturn
    \/ NewClientReturn
    \/ GetHostIpReturn
    \/ HostCallOver

SpecHost == Init /\ [][NextHost]_vars

\* The mapping the host-parsing rule describes: a line `host <alias>` (keyword
\* in any case) opens the entry <alias>; a line `<key> <value>`, split at its
\* first whitespace run, adds <key> lower-cased to the open entry; every other
\* line, and every attribute line before the first host line, adds nothing.
IsHostLine(line) ==
    Len(Split(line)) >= 2 /\ Lower(Split(line)[1]) = <<"h", "o", "s", "t">>

IsAttributeLine(line) ==
    /\ Len(Split1(Strip(line))) = 2
    /\ ~StartsWith(Strip(line), <<"#">>)
    /\ ~IsHostLine(line)

RECURSIVE DescribedHosts(_, _, _)
DescribedHosts(lines, hs, cur) ==
    IF lines = <<>> THEN hs
    ELSE LET line == Head(lines)
             words == Split1(Strip(line))
         IN  IF IsHostLine(line)
             THEN DescribedHosts(Tail(lines), DictSet(hs, Split(line)[2], EmptyDict),
                                 Split(line)[2])
             ELSE IF IsAttributeLine(line) /\ cur # <<>>
             THEN DescribedHosts(Tail(lines),
                      DictSet(hs, cur, DictSet(hs[cur], Lower(words[1]), Strip(words[2]))),
                      cur)
             ELSE DescribedHosts(Tail(lines), hs, cur)

Parsed == parse_pc = "done" /\ cfg.state = "text"

AliasDemo == <<"d", "e", "m", "o">>
KeyHostname == <<"h", "o", "s", "t", "n", "a", "m", "e">>
KeyPort == <<"p", "o", "r", "t">>
DemoHosts ==
    DictSet(EmptyDict, AliasDemo,
        DictSet(DictSet(EmptyDict, KeyHostname, <<"1", "0", ".", "0", ".", "0", ".", "5">>),
                KeyPort, <<"2", "8", "0", "8", "1">>))

\* C12: when parse_ssh_config has returned for a readable file, the mapping
\* has one entry per Host alias holding exactly the '<key> <value>' lines
\* (first whitespace run as separator, key lower-cased, value a string) between
\* that Host line and the next; lines before the first Host line, blank lines
\* and '#' lines add nothing; and 'Host demo / HostName 10.0.0.5 / Port 28081'
\* gives {demo: {hostname: 10.0.0.5, port: 28081}}.
C12_HostParsing ==
    Parsed =>
        /\ hosts = DescribedHosts(cfg.lines, EmptyDict, <<>>)
        /\ cfg.lines = <<LineHostDemo, LineHostName, LinePort>> => hosts = DemoHosts

\* the part of C12 the code does satisfy: the example of the rule
C12_Example ==
    Parsed /\ cfg.lines = <<LineHostDemo, LineHostName, LinePort>> => hosts = DemoHosts

\* the same rule for files whose attribute lines hold a space
C12_SpaceSeparated ==
    Parsed /\ (\A i \in 1..Len(cfg.lines) : cfg.lines[i] # LineUserTab)
        => hosts = DescribedHosts(cfg.lines, EmptyDict, <<>>)

C12_ExampleParsed ==
    Parsed /\ cfg.lines = <<LineHostDemo, LineHostName, LinePort>> /\ hosts = DemoHosts

BadPath == cfg.state \in {"missing", "unreadable", "noaccess"}

\* C13: for a missing or unreadable configuration path parse_ssh_config
\* returns the empty mapping and never raises to its caller, so constructing
\* an OpenSilexClient without a base URL never fails because of the host
\* configuration and ends with the default base URL.
C13_MissingConfigFallsBack ==
    /\ BadPath => parse_pc # "raised"
    /\ BadPath /\ parse_pc = "done" => hosts = EmptyDict
    /\ host_call.fn = "__init__" => host_ret.kind # "raised"
    /\ host_call.fn = "__init__" /\ host_call.base_url = PyNone /\ BadPath
           /\ host_ret.kind = "str"
       => host_ret.v = DefaultBaseUrl

\* the part of C13 the code does satisfy: a path passed by the caller, and a
\* default path whose directory can be searched
C13_OpenFailureIsCaught ==
    BadPath /\ (cfg.given \/ cfg.state # "noaccess") =>
        /\ parse_pc # "raised"
        /\ parse_pc = "done" => hosts = EmptyDict
        /\ host_call.fn = "__init__" /\ host_ret.kind # "pending"
           => host_ret = PyStr(DefaultBaseUrl)

C13_ConstructorRaised ==
    host_call.fn = "__init__" /\ cfg.state = "noaccess" /\ host_ret.kind = "raised"

C13_FellBack ==
    /\ host_call.fn = "__init__" /\ cfg.state = "missing"
    /\ host_ret = PyStr(DefaultBaseUrl)

LookupMapping ==
    IF host_call.ssh_config.kind = "dict" THEN host_call.ssh_config.v ELSE hosts

LookupReturned == host_call.fn = "get_host_ip" /\ host_ret.kind \in {"str", "None"}

\* C14: get_host_ip returns the entry's 'hostname' attribute if the entry has
\* one, otherwise its 'host' attribute, otherwise None; for an alias absent
\* from the mapping it returns None.
C14_HostLookup ==
    LookupReturned =>
        LET m == LookupMapping
            a == host_call.name.v
        IN  IF a \notin DOMAIN m THEN host_ret = PyNone
            ELSE IF AttrHostname \in DOMAIN m[a] THEN host_ret = PyStr(m[a][AttrHostname])
            ELSE IF AttrHost \in DOMAIN m[a] THEN host_ret = PyStr(m[a][AttrHost])
            ELSE host_ret = PyNone

\* a lookup answered from 'hostname' although the entry has a 'host' too
C14_Witness ==
    /\ LookupReturned
    /\ host_call.name.v \in DOMAIN LookupMapping
    /\ {AttrHostname, AttrHost} \subseteq DOMAIN LookupMapping[host_call.name.v]
    /\ host_ret = PyStr(LookupMapping[host_call.name.v][AttrHostname])
    /\ host_ret # PyStr(LookupMapping[host_call.name.v][AttrHost])

C14_WitnessHostOnly ==
    /\ LookupReturned
    /\ host_call.name.v \in DOMAIN LookupMapping
    /\ AttrHostname \notin DOMAIN LookupMapping[host_call.name.v]
    /\ host_ret.kind = "str"

C14_WitnessParsed ==
    /\ LookupReturned
    /\ host_call.ssh_config.kind = "None"
    /\ host_ret.kind = "str"

-----------------------------------------------------------------------------
(* Resource wrappers: modules/projects.py, ProjectsClient *)

\* most fields of an input object that are not None
MaxFields == 2

\* Python values of the wrappers' inputs: v is a sequence of characters for a
\* str, int or bool, and the sequence of the items for a list
PyList(items) == [kind |-> "list", v |-> items]
PyInt(digits) == [kind |-> "int", v |-> digits]
PyTrue == [kind |-> "bool", v |-> <<"T", "r", "u", "e">>]
PyFalse == [kind |-> "bool", v |-> <<"F", "a", "l", "s", "e">>]

\* `if x:` on such a value
ValTruthy(x) ==
    CASE x.kind = "None" -> FALSE
      [] x.kind = "int" -> x.v # <<"0">>
      [] x.kind = "bool" -> x = PyTrue
      [] OTHER -> x.v # <<>>

\* `if x is not None:`
IsNotNone(x) == x.kind # "None"

\* the test create_project / update_project put before each key, as `is not None`
field_test_not_none(x) == IsNotNone(x)

\* the test create_project / update_project put before each key: `if project_data.<f>:`
field_test(x) == ValTruthy(x)

ProjectFields ==
    <<"uri", "name", "shortname", "description", "start_date", "end_date", "homepage",
      "objective", "keywords", "related_projects", "coordinators",
      "scientific_contacts", "administrative_contacts">>

ListFields ==
    {"keywords", "related_projects", "coordinators", "scientific_contacts",
     "administrative_contacts", "order_by", "rdf_types", "factor_levels", "germplasm"}
IntFields == {"year", "page", "page_size"}
BoolFields == {"is_public"}

Range(f) == {f[i] : i \in DOMAIN f}

\* the empty and a non-empty value of a field, by the field's type
EmptyVal(f) ==
    IF f \in ListFields THEN PyList(<<>>)
    ELSE IF f \in IntFields THEN PyInt(<<"0">>)
    ELSE IF f \in BoolFields THEN PyFalse
    ELSE PyStr(<<>>)
SetVal(f) ==
    IF f \in ListFields THEN PyList(<<<<"u">>>>)
    ELSE IF f \in IntFields THEN PyInt(<<"7">>)
    ELSE IF f \in BoolFields THEN PyTrue
    ELSE PyStr(<<"v">>)

\* input objects over the given fields with at most MaxFields fields not None
InputObjects(fields) ==
    UNION {{[f \in fields |-> IF f \in K THEN (IF g[f] THEN SetVal(f) ELSE EmptyVal(f))
                              ELSE PyNone] : g \in [K -> BOOLEAN]} :
              K \in {X \in SUBSET fields : Cardinality(X) <= MaxFields}}

ProjectInputs == InputObjects(Range(ProjectFields))

\* `data = {}` followed by the `if project_data.<f>: data['<f>'] = project_data.<f>` lines
RECURSIVE project_body(_, _, _)
project_body(data, project_data, fields) ==
    IF fields = <<>> THEN data
    ELSE LET f == Head(fields)
         IN  project_body(IF field_test(project_data[f])
                          THEN DictSet(data, f, project_data[f]) ELSE data,
                          project_data, Tail(fields))

\* arguments of a call on self.client that are left out
NoArg == [kind |-> "None", v |-> <<>>]
DictArg(d) == [kind |-> "dict", v |-> d]

PathProjects ==
    <<"/", "c", "o", "r", "e", "/", "p", "r", "o", "j", "e", "c", "t", "s">>
PathExperiments ==
    <<"/", "c", "o", "r", "e", "/", "e", "x", "p", "e", "r", "i", "m", "e", "n", "t",
      "s">>
PathScientificObjects ==
    <<"/", "c", "o", "r", "e", "/", "s", "c", "i", "e", "n", "t", "i", "f", "i", "c",
      "_", "o", "b", "j", "e", "c", "t", "s">>
ByUris ==
    <<"/", "b", "y", "_", "u", "r", "i", "s">>

\* urllib.parse.quote(uri, safe=''): letters, digits and _.-~ are kept, every
\* other character becomes %XX
Digits == <<"0", "1", "2", "3", "4", "5", "6", "7", "8", "9">>
Unreserved == Range(UpperCase) \cup Range(LowerCase) \cup Range(Digits) \cup {"_", ".", "-", "~"}
PercentCode(c) ==
    CASE c = ":" -> <<"%", "3", "A">>
      [] c = "/" -> <<"%", "2", "F">>
      [] c = "#" -> <<"%", "2", "3">>
      [] c = "%" -> <<"%", "2", "5">>
      [] c = " " -> <<"%", "2", "0">>
      [] c = "?" -> <<"%", "3", "F">>
RECURSIVE quote(_)
quote(t) ==
    IF t = <<>> THEN <<>>
    ELSE (IF Head(t) \in Unreserved THEN <<Head(t)>> ELSE PercentCode(Head(t)))
         \o quote(Tail(t))

\* `{uri}` in an f-string
raw(t) == t

\* URIs handed to the wrappers
UriPrefixed ==
    <<"d", "e", "v", ":", "p", "1">>
UriHttp ==
    <<"h", "t", "t", "p", ":", "/", "/", "h", "/", "p", "#", "1">>
UriPlain ==
    <<"p", "1">>
Uris == {UriPrefixed, UriHttp, UriPlain}

\* dict-typed arguments of create_experiment & co., handed on as they are
DictInputs ==
    {EmptyDict,
     [k \in {"name"} |-> PyStr(<<"v">>)],
     [k \in {"name", "uri"} |-> IF k = "uri" THEN PyStr(UriHttp) ELSE PyStr(<<"v">>)],
     [k \in {"name", "description"} |-> IF k = "name" THEN PyStr(<<"v">>) ELSE PyNone]}

\* lists of URIs handed to the by_uris methods
UriLists == {PyList(<<>>), PyList(<<UriHttp>>), PyList(<<UriPrefixed, UriPlain>>)}

\* search parameter objects: the filters, `page` and `page_size`
SearchInputs(filters) ==
    {[f \in Range(filters) \cup {"page", "page_size"} |->
         IF f = "page" THEN p ELSE IF f = "page_size" THEN PyInt(<<"2", "0">>) ELSE o[f]] :
        o \in InputObjects(Range(filters)), p \in {PyInt(<<"0">>), PyInt(<<"7">>)}}

ProjectFilters == <<"name", "year", "keyword", "order_by">>
ExperimentFilters == <<"name", "year", "project", "is_public", "order_by">>
ScientificObjectFilters ==
    <<"name", "rdf_types", "experiment", "factor_levels", "parent", "germplasm", "order_by">>

\* ProjectSearchParams() etc.: every filter None, page 0, page_size 20
DefaultParams(filters) ==
    [f \in Range(filters) \cup {"page", "page_size"} |->
        IF f = "page" THEN PyInt(<<"0">>)
        ELSE IF f = "page_size" THEN PyInt(<<"2", "0">>) ELSE PyNone]

\* the test before a filter key: `if params.<f>:`, and `is not None` for is_public
filter_test(f, x) == IF f = "is_public" THEN IsNotNone(x) ELSE ValTruthy(x)

RECURSIVE add_filters(_, _, _)
add_filters(query_params, params, filters) ==
    IF filters = <<>> THEN query_params
    ELSE LET f == Head(filters)
         IN  add_filters(IF filter_test(f, params[f])
                         THEN DictSet(query_params, f, params[f]) ELSE query_params,
                         params, Tail(filters))

\* `if params is None: params = ...()`, `query_params = {'page': ..., 'page_size': ...}`
\* and the filter lines
search_query(arg, filters) ==
    LET params == IF arg.kind = "None" THEN DefaultParams(filters) ELSE arg.v
    IN  add_filters(DictSet(DictSet(EmptyDict, "page", params["page"]),
                            "page_size", params["page_size"]),
                    params, filters)

SearchArgs(filters) == {NoArg} \cup {[kind |-> "params", v |-> p] : p \in SearchInputs(filters)}

\* HTTP status codes of the model
Statuses == {200, 201, 400, 401, 404, 500}

\* status_code of an envelope: None or an int
StatusNone == [kind |-> "None", n |-> 0]
StatusOf(n) == [kind |-> "int", n |-> n]

\* what the base client meets when it carries out a call: no connection, a
\* failed authentication (before or at the request), or an HTTP response
HttpOutcomes ==
    {[kind |-> "transport", status |-> 0, errors |-> <<>>, message |-> PyNone,
      result |-> PyNone]}
    \cup {[kind |-> "auth", status |-> n, errors |-> <<>>, message |-> PyStr(<<"m">>),
           result |-> PyNone] : n \in {0, 401}}
    \cup {[kind |-> "response", status |-> n, errors |-> e, message |-> m,
           result |-> IF n < 300 THEN PyStr(<<"r">>) ELSE PyNone] :
             n \in Statuses, e \in {<<>>, <<"e">>}, m \in {PyNone, PyStr(<<"m">>)}}

NoEnvelope(kind) ==
    [kind |-> kind, success |-> FALSE, status_code |-> StatusNone, errors |-> <<>>,
     message |-> PyNone, data |-> PyNone]

Envelope(success, status_code, errors, message, data) ==
    [kind |-> "envelope", success |-> success, status_code |-> status_code,
     errors |-> errors, message |-> message, data |-> data]

\* an envelope taking every HTTP response for a success
APIResponse_any_response(o) ==
    CASE o.kind = "transport" ->
           Envelope(FALSE, StatusNone, <<"connection error">>, PyNone, PyNone)
      [] o.kind = "auth" ->
           Envelope(FALSE, IF o.status = 0 THEN StatusNone ELSE StatusOf(o.status),
                    o.errors, o.message, PyNone)
      [] OTHER -> Envelope(TRUE, StatusOf(o.status), <<>>, o.message, o.result)

\* construction of the envelope: the one place that classifies an outcome
APIResponse(o) ==
    CASE o.kind = "transport" ->
           Envelope(FALSE, StatusNone, <<"connection error">>, PyNone, PyNone)
      [] o.kind = "auth" ->
           Envelope(FALSE, IF o.status = 0 THEN StatusNone ELSE StatusOf(o.status),
                    o.errors, o.message, PyNone)
      [] o.kind = "response" /\ o.status >= 200 /\ o.status <= 299 ->
           Envelope(TRUE, StatusOf(o.status), <<>>, o.message, o.result)
      [] OTHER -> Envelope(FALSE, StatusOf(o.status), o.errors, o.message, PyNone)

\* a wrapper turning an exception of the base client into a failed envelope
wrapper_return_catches(env) ==
    IF env.kind = "raised"
    THEN Envelope(FALSE, StatusNone, <<"error">>, PyNone, PyNone)
    ELSE env

\* `return self.client.<verb>(...)`: the envelope, or the exception, as it is
wrapper_return(env) == env

NoFacadeCall == [method |-> "none", arg |-> NoArg]

\* the one call on self.client a wrapper makes
delegate(verb, path, params, data) ==
    <<[verb |-> verb, path |-> path, params |-> params, data |-> data]>>

\* a ProjectsClient method is entered and reaches its call on self.client
Wrapper(method, arg, sent) ==
    /\ fc_pc = "idle"
    /\ fc_call.method = "none"
    /\ fc_call' = [method |-> method, arg |-> arg]
    /\ fc_sent' = sent
    /\ fc_pc' = "called"
    /\ fc_env' = NoEnvelope("pending")
    /\ fc_ret' = NoEnvelope("pending")
    /\ UNCHANGED <<sessionVars, pageVars, listingVars, hostVars, asyncVars, batchVars>>

Slash == <<"/">>

SearchProjects(arg) ==
    Wrapper("search_projects", arg,
            delegate("GET", PathProjects, DictArg(search_query(arg, ProjectFilters)), NoArg))

GetProjectByUri(uri) ==
    Wrapper("get_project_by_uri", PyStr(uri),
            delegate("GET", PathProjects \o Slash \o quote(uri), NoArg, NoArg))

GetProjectsByUris(uris) ==
    Wrapper("get_projects_by_uris", uris,
            delegate("GET", PathProjects \o ByUris,
                     DictArg(DictSet(EmptyDict, "uris", uris)), NoArg))

CreateProject(project_data) ==
    Wrapper("create_project", [kind |-> "ProjectCreationData", v |-> project_data],
            delegate("POST", PathProjects, NoArg,
                     DictArg(project_body(EmptyDict, project_data, ProjectFields))))

UpdateProject(project_data) ==
    Wrapper("update_project", [kind |-> "ProjectCreationData", v |-> project_data],
            delegate("PUT", PathProjects, NoArg,
                     DictArg(project_body(EmptyDict, project_data, ProjectFields))))

DeleteProject(uri) ==
    Wrapper("delete_project", PyStr(uri),
            delegate("DELETE", PathProjects \o Slash \o raw(uri), NoArg, NoArg))

SearchExperiments(arg) ==
    Wrapper("search_experiments", arg,
            delegate("GET", PathExperiments,
                     DictArg(search_query(arg, ExperimentFilters)), NoArg))

GetExperimentByUri(uri) ==
    Wrapper("get_experiment_by_uri", PyStr(uri),
            delegate("GET", PathExperiments \o Slash \o raw(uri), NoArg, NoArg))

CreateExperiment(experiment_data) ==
    Wrapper("create_experiment", DictArg(experiment_data),
            delegate("POST", PathExperiments, NoArg, DictArg(experiment_data)))

UpdateExperiment(experiment_data) ==
    Wrapper("update_experiment", DictArg(experiment_data),
            delegate("PUT", PathExperiments, NoArg, DictArg(experiment_data)))

DeleteExperiment(uri) ==
    Wrapper("delete_experiment", PyStr(uri),
            delegate("DELETE", PathExperiments \o Slash \o raw(uri), NoArg, NoArg))

SearchScientificObjects(arg) ==
    Wrapper("search_scientific_objects", arg,
            delegate("GET", PathScientificObjects,
                     DictArg(search_query(arg, ScientificObjectFilters)), NoArg))

GetScientificObjectByUri(uri) ==
    Wrapper("get_scientific_object_by_uri", PyStr(uri),
            delegate("GET", PathScientificObjects \o Slash \o raw(uri), NoArg, NoArg))

CreateScientificObject(object_data) ==
    Wrapper("create_scientific_object", DictArg(object_data),
            delegate("POST", PathScientificObjects, NoArg, DictArg(object_data)))

UpdateScientificObject(object_data) ==
    Wrapper("update_scientific_object", DictArg(object_data),
            delegate("PUT", PathScientificObjects, NoArg, DictArg(object_data)))

DeleteScientificObject(uri) ==
    Wrapper("delete_scientific_object", PyStr(uri),
            delegate("DELETE", PathScientificObjects \o Slash \o raw(uri), NoArg, NoArg))

GetScientificObjectsByUris(uris) ==
    Wrapper("get_scientific_objects_by_uris", uris,
            delegate("GET", PathScientificObjects \o ByUris,
                     DictArg(DictSet(EmptyDict, "uris", uris)), NoArg))

\* self.client carries the call out and constructs its envelope
BaseClientAnswers(o) ==
    /\ fc_pc = "called"
    /\ fc_env' = APIResponse(o)
    /\ fc_pc' = "returning"
    /\ UNCHANGED <<fc_call, fc_sent, fc_ret>>
    /\ UNCHANGED <<sessionVars, pageVars, listingVars, hostVars, asyncVars, batchVars>>

\* self.client raises instead
BaseClientRaises ==
    /\ fc_pc = "called"
    /\ fc_env' = NoEnvelope("raised")
    /\ fc_pc' = "returning"
    /\ UNCHANGED <<fc_call, fc_sent, fc_ret>>
    /\ UNCHANGED <<sessionVars, pageVars, listingVars, hostVars, asyncVars, batchVars>>

\* `return self.client.<verb>(...)`
WrapperReturn ==
    /\ fc_pc = "returning"
    /\ fc_ret' = wrapper_return(fc_env)
    /\ fc_pc' = "idle"
    /\ UNCHANGED <<fc_call, fc_sent, fc_env>>
    /\ UNCHANGED <<sessionVars, pageVars, listingVars, hostVars, asyncVars, batchVars>>

\* the caller is done with the envelope
FacadeCallOver ==
    /\ fc_pc = "idle"
    /\ fc_call.method # "none"
    /\ fc_call' = NoFacadeCall
    /\ fc_sent' = <<>>
    /\ fc_env' = NoEnvelope("no call")
    /\ fc_ret' = NoEnvelope("no call")
    /\ UNCHANGED fc_pc
    /\ UNCHANGED <<sessionVars, pageVars, listingVars, hostVars, asyncVars, batchVars>>

\* a caller invokes one of the methods of ProjectsClient
FacadeCall ==
    /\ fc_call.method = "none"
    /\ \/ \E a \in SearchArgs(ProjectFilters) : SearchProjects(a)
       \/ \E u \in Uris : GetProjectByUri(u)
       \/ \E l \in UriLists : GetProjectsByUris(l)
       \/ \E d \in ProjectInputs : CreateProject(d)
       \/ \E d \in ProjectInputs : UpdateProject(d)
       \/ \E u \in Uris : DeleteProject(u)
       \/ \E a \in SearchArgs(ExperimentFilters) : SearchExperiments(a)
       \/ \E u \in Uris : GetExperimentByUri(u)
       \/ \E d \in DictInputs : CreateExperiment(d)
       \/ \E d \in DictInputs : UpdateExperiment(d)
       \/ \E u \in Uris : DeleteExperiment(u)
       \/ \E a \in SearchArgs(ScientificObjectFilters) : SearchScientificObjects(a)
       \/ \E u \in Uris : GetScientificObjectByUri(u)
       \/ \E d \in DictInputs : CreateScientificObject(d)
       \/ \E d \in DictInputs : UpdateScientificObject(d)
       \/ \E u \in Uris : DeleteScientificObject(u)
       \/ \E l \in UriLists : GetScientificObjectsByUris(l)

NextProjects ==
    \/ FacadeCall
    \/ \E o \in HttpOutcomes : BaseClientAnswers(o)
    \/ BaseClientRaises
    \/ WrapperReturn
    \/ FacadeCallOver

SpecProjects == Init /\ [][NextProjects]_vars

\* a field of an input object that is set and not empty
SetNonEmpty(x) == x.kind # "None" /\ x.v # <<>>

ProjectBodySent ==
    /\ fc_call.method \in {"create_project", "update_project"}
    /\ Len(fc_sent) = 1

OnlyNameSet(project_data) ==
    /\ SetNonEmpty(project_data["name"])
    /\ \A f \in DOMAIN project_data : f # "name" => project_data[f] = PyNone

\* C15: the JSON body create_project and update_project send holds a key
\* exactly for each field of the input that is set and non-empty, with the
\* field's value, never a key with a null or empty value; an input with only
\* name set gives the body {name: <name>} and nothing else.
C15_OptionalFieldOmission ==
    ProjectBodySent =>
        LET project_data == fc_call.arg.v
            body == fc_sent[1].data
        IN  /\ body.kind = "dict"
            /\ DOMAIN body.v = {f \in DOMAIN project_data : SetNonEmpty(project_data[f])}
            /\ \A k \in DOMAIN body.v :
                  /\ body.v[k] = project_data[k]
                  /\ body.v[k] # PyNone /\ body.v[k].v # <<>>
            /\ OnlyNameSet(project_data)
               => body.v = [k \in {"name"} |-> project_data["name"]]

\* a creation with only name set has returned
C15_Witness ==
    /\ ProjectBodySent
    /\ fc_call.method = "create_project"
    /\ OnlyNameSet(fc_call.arg.v)
    /\ DOMAIN fc_sent[1].data.v = {"name"}
    /\ fc_ret.kind = "envelope"

\* an update whose input holds an empty string and an empty list
C15_WitnessEmpty ==
    /\ ProjectBodySent
    /\ fc_call.method = "update_project"
    /\ fc_call.arg.v["shortname"] = PyStr(<<>>)
    /\ fc_call.arg.v["keywords"] = PyList(<<>>)
    /\ fc_sent[1].data.v = EmptyDict

\* the methods that place a URI in the request path, and the path before it
PathUriMethods ==
    {"get_project_by_uri", "delete_project", "get_experiment_by_uri", "delete_experiment",
     "get_scientific_object_by_uri", "delete_scientific_object"}

ResourcePath(method) ==
    IF method \in {"get_project_by_uri", "delete_project"} THEN PathProjects
    ELSE IF method \in {"get_experiment_by_uri", "delete_experiment"} THEN PathExperiments
    ELSE PathScientificObjects

\* the URI segment of the path sent
UriSegment == SubSeq(fc_sent[1].path, Len(ResourcePath(fc_call.method)) + 2,
                     Len(fc_sent[1].path))

HexChar(c) ==
    CASE c = <<"3", "A">> -> ":"
      [] c = <<"2", "F">> -> "/"
      [] c = <<"2", "3">> -> "#"
      [] c = <<"2", "5">> -> "%"
      [] c = <<"2", "0">> -> " "
      [] c = <<"3", "F">> -> "?"
      [] OTHER -> "<undefined>"

\* what a server decodes a path segment to
RECURSIVE Unquote(_)
Unquote(t) ==
    IF t = <<>> THEN <<>>
    ELSE IF Head(t) = "%" /\ Len(t) >= 3
    THEN <<HexChar(SubSeq(t, 2, 3))>> \o Unquote(SubSeq(t, 4, Len(t)))
    ELSE <<Head(t)>> \o Unquote(Tail(t))

PassThroughMethods ==
    {"create_experiment", "update_experiment", "create_scientific_object",
     "update_scientific_object"}

\* C16: every ProjectsClient method that places a URI in the request path
\* percent-encodes it, so the path sent holds no raw ':' or '/' of the URI
\* (and decodes to the URI); URIs sent as query or body values are passed as
\* they are.
C16_PathUrisEncoded ==
    Len(fc_sent) = 1 =>
        /\ fc_call.method \in PathUriMethods =>
              /\ \A i \in 1..Len(UriSegment) : UriSegment[i] \notin {":", "/"}
              /\ Unquote(UriSegment) = fc_call.arg.v
        /\ fc_call.method \in {"get_projects_by_uris", "get_scientific_objects_by_uris"} =>
              fc_sent[1].params.v["uris"] = fc_call.arg
        /\ fc_call.method \in PassThroughMethods => fc_sent[1].data.v = fc_call.arg.v

\* the part of C16 the code does satisfy: get_project_by_uri encodes, and
\* query and body values are passed as they are
C16_GetProjectEncodes ==
    Len(fc_sent) = 1 =>
        /\ fc_call.method = "get_project_by_uri" =>
              /\ \A i \in 1..Len(UriSegment) : UriSegment[i] \notin {":", "/"}
              /\ Unquote(UriSegment) = fc_call.arg.v
        /\ fc_call.method \in {"get_projects_by_uris", "get_scientific_objects_by_uris"} =>
              fc_sent[1].params.v["uris"] = fc_call.arg
        /\ fc_call.method \in PassThroughMethods => fc_sent[1].data.v = fc_call.arg.v

\* the five other methods send the URI as it is
C16_OthersSendRaw ==
    Len(fc_sent) = 1 /\ fc_call.method \in PathUriMethods \ {"get_project_by_uri"}
        => UriSegment = fc_call.arg.v

C16_RawColonSent ==
    /\ Len(fc_sent) = 1
    /\ fc_call.method = "delete_project"
    /\ fc_call.arg.v = UriPrefixed
    /\ \E i \in 1..Len(UriSegment) : UriSegment[i] = ":"

C16_EncodedSent ==
    /\ Len(fc_sent) = 1
    /\ fc_call.method = "get_project_by_uri"
    /\ fc_call.arg.v = UriHttp
    /\ \E i \in 1..Len(UriSegment) : UriSegment[i] = "%"

ReadMethods ==
    {"search_projects", "get_project_by_uri", "get_projects_by_uris",
     "search_experiments", "get_experiment_by_uri", "search_scientific_objects",
     "get_scientific_object_by_uri", "get_scientific_objects_by_uris"}
CreateMethods == {"create_project", "create_experiment", "create_scientific_object"}
UpdateMethods == {"update_project", "update_experiment", "update_scientific_object"}
DeleteMethods == {"delete_project", "delete_experiment", "delete_scientific_object"}

FacadeReturned == fc_call.method # "none" /\ fc_pc = "idle"

\* C17: every ProjectsClient method issues exactly one call on the base
\* client, GET for search_*/get_*, POST for create_*, PUT for update_*,
\* DELETE for delete_*, and hands back that call's envelope as it is, or its
\* exception: it classifies nothing and catches nothing.
C17_SingleDelegatingCall ==
    fc_call.method # "none" =>
        /\ fc_call.method \in ReadMethods \cup CreateMethods \cup UpdateMethods
                              \cup DeleteMethods
        /\ Len(fc_sent) = 1
        /\ fc_call.method \in ReadMethods <=> fc_sent[1].verb = "GET"
        /\ fc_call.method \in CreateMethods <=> fc_sent[1].verb = "POST"
        /\ fc_call.method \in UpdateMethods <=> fc_sent[1].verb = "PUT"
        /\ fc_call.method \in DeleteMethods <=> fc_sent[1].verb = "DELETE"
        /\ FacadeReturned => fc_ret = fc_env /\ fc_env.kind \in {"envelope", "raised"}

\* a delete handed back the failed envelope of a 404
C17_Witness ==
    /\ FacadeReturned
    /\ fc_call.method = "delete_experiment"
    /\ fc_sent[1].verb = "DELETE"
    /\ fc_ret.kind = "envelope" /\ ~fc_ret.success /\ fc_ret.status_code = StatusOf(404)

\* an exception of the base client left a search
C17_WitnessRaised ==
    /\ FacadeReturned
    /\ fc_call.method = "search_scientific_objects"
    /\ fc_ret.kind = "raised"

EnvelopeOk(e) ==
    /\ e.success => e.status_code.kind = "int" /\ e.status_code.n \in 200..299
    /\ ~e.success => e.errors # <<>> \/ e.message # PyNone \/ e.status_code # StatusNone

\* C20: for every envelope a facade-level call constructs and returns,
\* success = true implies status_code in [200, 299], success = false implies
\* errors non-empty or message non-null or status_code non-null; and from its
\* construction to the end of the call the envelope is not changed.
C20_EnvelopeInvariant ==
    /\ [](fc_env.kind = "envelope" => EnvelopeOk(fc_env))
    /\ [](fc_ret.kind = "envelope" => EnvelopeOk(fc_ret) /\ fc_ret = fc_env)
    /\ [][fc_env.kind = "envelope" /\ fc_env'.kind = "envelope" => fc_env' = fc_env]_vars
    /\ [][fc_ret.kind = "envelope" /\ fc_ret'.kind = "envelope" => fc_ret' = fc_ret]_vars

\* a failed envelope that only its status code tells from nothing
C20_Witness ==
    /\ FacadeReturned
    /\ fc_ret.kind = "envelope" /\ ~fc_ret.success
    /\ fc_ret.errors = <<>> /\ fc_ret.message = PyNone
    /\ fc_ret.status_code = StatusOf(400)

C20_WitnessTransport ==
    /\ FacadeReturned
    /\ fc_ret.kind = "envelope" /\ ~fc_ret.success
    /\ fc_ret.status_code = StatusNone /\ fc_ret.errors # <<>>

C20_WitnessSuccess ==
    /\ FacadeReturned
    /\ fc_ret.kind = "envelope" /\ fc_ret.success /\ fc_ret.status_code = StatusOf(201)

-----------------------------------------------------------------------------
(* Parallel fetch: opensilex_utils.py, AsyncOpenSilexClient *)

\* most identifiers of one get_multiple_experiments_data call
MaxUris == 2

ExperimentUris == {"e1", "e2"}
UriSeqs == SeqsUpTo(ExperimentUris, MaxUris)

\* bodies of GET /core/data: JSON text of a dict, or not JSON
DataBody(json, has_result, empty, payload) ==
    [json |-> json, has_result |-> has_result, empty |-> empty, payload |-> payload]

NoBody == DataBody(FALSE, FALSE, TRUE, "[]")

\* answers of GET /core/data
DataResponses ==
    {[kind |-> "fault", status |-> 0, body |-> NoBody],
     [kind |-> "http", status |-> 200, body |-> DataBody(TRUE, TRUE, FALSE, "D1")],
     [kind |-> "http", status |-> 200, body |-> DataBody(TRUE, TRUE, FALSE, "D2")],
     [kind |-> "http", status |-> 200, body |-> DataBody(TRUE, FALSE, FALSE, "[]")],
     [kind |-> "http", status |-> 200, body |-> DataBody(TRUE, FALSE, TRUE, "[]")],
     [kind |-> "http", status |-> 200, body |-> NoBody],
     [kind |-> "http", status |-> 200, body |-> DataBody(TRUE, TRUE, FALSE, "[]")],
     [kind |-> "http", status |-> 401, body |-> DataBody(TRUE, FALSE, FALSE, "[]")],
     [kind |-> "http", status |-> 500, body |-> NoBody]}

\* answers of POST /security/authenticate to the asynchronous client, which
\* never tests the token it stores: the tokens T1 and T2 stand for every value
AsyncAuthResponses ==
    {r \in AuthResponses :
        r.kind = "fault" \/ r.status # 200 \/ ~r.body.has_token
        \/ r.body.token \in {"T1", "T2"}}

\* AsyncOpenSilexClient.authenticate: no try block; session.post(...) and
\* response.json() raise, and so does result["result"]["token"] on a body
\* without these keys
async_authenticate(resp, tok) ==
    IF resp.kind = "fault" THEN [exc |-> TRUE, ret |-> FALSE, token |-> tok]
    ELSE IF resp.status = 200
    THEN IF resp.body.json /\ resp.body.has_result /\ resp.body.has_token
         THEN [exc |-> FALSE, ret |-> TRUE, token |-> resp.body.token]
         ELSE [exc |-> TRUE, ret |-> FALSE, token |-> tok]
    ELSE [exc |-> FALSE, ret |-> FALSE, token |-> tok]

\* what a fetch_data_async task ends with: a dict, None, or an exception
NoResult == [kind |-> "None", body |-> NoBody]

fetch_data_async(resp) ==
    IF resp.kind = "fault" THEN [kind |-> "raised", body |-> NoBody]
    ELSE IF resp.status = 200
    THEN IF resp.body.json THEN [kind |-> "dict", body |-> resp.body]
         ELSE [kind |-> "raised", body |-> NoBody]
    ELSE NoResult

\* the mapping keeping None for a fetch that gave nothing
extract_keeps_none(res) ==
    IF res.kind = "dict" /\ ~res.body.empty
    THEN IF res.body.has_result THEN res.body.payload ELSE "[]"
    ELSE IF res.kind = "None" THEN None ELSE "[]"

\* `result.get("result", []) if result else []`
extract(res) ==
    IF res.kind = "dict" /\ ~res.body.empty
    THEN IF res.body.has_result THEN res.body.payload ELSE "[]"
    ELSE "[]"

NewTask == [state |-> "created", token |-> None, resp |-> NoResponse, result |-> NoResult]

\* positions of the tasks that have ended, in the order they ended
Arrivals(log) == SelectSeq(log, LAMBDA e : e.ev = "done")

\* results handed on in the order the GETs ended
gather_by_arrival(tasks, log) ==
    [i \in 1..Len(tasks) |-> tasks[Arrivals(log)[i].i].result]

\* `results = await asyncio.gather(*tasks)`: the results in the order of the tasks
gather(tasks, log) == [i \in 1..Len(tasks) |-> tasks[i].result]

\* `for uri, result in zip(experiment_uris, results): data_by_experiment[uri] = ...`
RECURSIVE data_by_experiment(_, _, _, _)
data_by_experiment(d, uris, results, i) ==
    IF i > Len(uris) THEN d
    ELSE data_by_experiment(DictSet(d, uris[i], extract(results[i])), uris, results, i + 1)

DictRet(d) == [kind |-> "dict", v |-> d]
RaisedRet == [kind |-> "raised", v |-> <<>>]

\* get_multiple_experiments_data(experiment_uris) is called: the session is
\* opened and authenticate() sends its POST
GetMultipleExperimentsData(uris) ==
    /\ a_pc = "idle"
    /\ a_uris' = uris
    /\ a_tasks' = <<>>
    /\ a_log' = <<[ev |-> "auth", i |-> 0]>>
    /\ a_ret' = [kind |-> "pending", v |-> <<>>]
    /\ a_pc' = "auth"
    /\ UNCHANGED a_token
    /\ UNCHANGED <<sessionVars, pageVars, listingVars, hostVars, facadeVars, batchVars>>

\* the POST is answered: `if not await self.authenticate(session): return {}`,
\* then the tasks are created and handed to asyncio.gather
AsyncAuthAnswer(resp) ==
    /\ a_pc = "auth"
    /\ LET a == async_authenticate(resp, a_token)
       IN  /\ a_token' = a.token
           /\ a_log' = Append(a_log, [ev |-> IF a.exc THEN "auth raised"
                                             ELSE IF a.ret THEN "auth ok"
                                             ELSE "auth failed", i |-> 0])
           /\ IF a.exc
              THEN a_ret' = RaisedRet /\ a_pc' = "returned" /\ UNCHANGED a_tasks
              ELSE IF ~a.ret \/ a_uris = <<>>
              THEN a_ret' = DictRet(EmptyDict) /\ a_pc' = "returned" /\ UNCHANGED a_tasks
              ELSE /\ a_tasks' = [i \in 1..Len(a_uris) |-> NewTask]
                   /\ a_pc' = "gather"
                   /\ UNCHANGED a_ret
    /\ UNCHANGED a_uris
    /\ UNCHANGED <<sessionVars, pageVars, listingVars, hostVars, facadeVars, batchVars>>

\* task i runs to its GET: `headers = {"Authorization": f"Bearer {self.token}"}`
TaskSends(i) ==
    /\ a_pc = "gather"
    /\ i \in 1..Len(a_tasks)
    /\ a_tasks[i].state = "created"
    /\ a_tasks' = [a_tasks EXCEPT ![i].state = "sent", ![i].token = a_token]
    /\ a_log' = Append(a_log, [ev |-> "send", i |-> i])
    /\ UNCHANGED <<a_pc, a_token, a_uris, a_ret>>
    /\ UNCHANGED <<sessionVars, pageVars, listingVars, hostVars, facadeVars, batchVars>>

\* the GET of task i is answered and the task ends
TaskEnds(i, resp) ==
    /\ a_pc = "gather"
    /\ i \in 1..Len(a_tasks)
    /\ a_tasks[i].state = "sent"
    /\ a_tasks' = [a_tasks EXCEPT ![i].state = "done", ![i].resp = resp,
                                  ![i].result = fetch_data_async(resp)]
    /\ a_log' = Append(a_log, [ev |-> "done", i |-> i])
    /\ UNCHANGED <<a_pc, a_token, a_uris, a_ret>>
    /\ UNCHANGED <<sessionVars, pageVars, listingVars, hostVars, facadeVars, batchVars>>

\* every task has ended without an exception: gather hands the results on
\* and the mapping is built and returned
GatherReturns ==
    /\ a_pc = "gather"
    /\ \A i \in 1..Len(a_tasks) :
          a_tasks[i].state = "done" /\ a_tasks[i].result.kind # "raised"
    /\ a_ret' = DictRet(data_by_experiment(EmptyDict, a_uris, gather(a_tasks, a_log), 1))
    /\ a_pc' = "returned"
    /\ UNCHANGED <<a_token, a_uris, a_tasks, a_log>>
    /\ UNCHANGED <<sessionVars, pageVars, listingVars, hostVars, facadeVars, batchVars>>

\* a task has ended with an exception: gather (return_exceptions left False)
\* raises it in the caller, whatever the other tasks have reached
GatherRaises ==
    /\ a_pc = "gather"
    /\ \E i \in 1..Len(a_tasks) :
          a_tasks[i].state = "done" /\ a_tasks[i].result.kind = "raised"
    /\ a_ret' = RaisedRet
    /\ a_pc' = "returned"
    /\ UNCHANGED <<a_token, a_uris, a_tasks, a_log>>
    /\ UNCHANGED <<sessionVars, pageVars, listingVars, hostVars, facadeVars, batchVars>>

\* the caller goes on; the client keeps its token
AsyncCallOver ==
    /\ a_pc = "returned"
    /\ a_pc' = "idle"
    /\ a_uris' = <<>>
    /\ a_tasks' = <<>>
    /\ a_log' = <<>>
    /\ a_ret' = [kind |-> "no call", v |-> <<>>]
    /\ UNCHANGED a_token
    /\ UNCHANGED <<sessionVars, pageVars, listingVars, hostVars, facadeVars, batchVars>>

NextAsync ==
    \/ \E uris \in UriSeqs : GetMultipleExperimentsData(uris)
    \/ \E resp \in AsyncAuthResponses : AsyncAuthAnswer(resp)
    \/ \E i \in 1..MaxUris : TaskSends(i)
    \/ \E i \in 1..MaxUris, resp \in DataResponses : TaskEnds(i, resp)
    \/ GatherReturns
    \/ GatherRaises
    \/ AsyncCallOver

SpecAsync == Init /\ [][NextAsync]_vars

\* the call has returned the mapping built from the results of its GETs
AsyncMapped == a_pc = "returned" /\ a_ret.kind = "dict" /\ Len(a_tasks) > 0

\* the value the answer to the GET of position i stands for
ResultAt(i) == extract(fetch_data_async(a_tasks[i].resp))

\* C18: for every completion order of the GETs, the value stored under
\* experiment_uris[i] is the result of the i-th dispatched request, never the
\* result of another request.
C18_PositionAssociation ==
    AsyncMapped => \A i \in 1..Len(a_uris) : a_ret.v[a_uris[i]] = ResultAt(i)

\* C18, amended: for every completion order of the GETs, the value stored
\* under an identifier is the result of the request dispatched at the last
\* position holding that identifier; so for pairwise distinct identifiers the
\* value under experiment_uris[i] is the result of the i-th request.
C18_LastPositionWins ==
    AsyncMapped =>
        /\ DOMAIN a_ret.v = Range(a_uris)
        /\ \A i \in 1..Len(a_uris) :
              (\A j \in (i + 1)..Len(a_uris) : a_uris[j] # a_uris[i])
                  => a_ret.v[a_uris[i]] = ResultAt(i)

\* two GETs for distinct identifiers ended in the reverse order with results
\* that differ
C18_Witness ==
    /\ AsyncMapped
    /\ Len(a_uris) = 2 /\ a_uris[1] # a_uris[2]
    /\ Arrivals(a_log) = <<[ev |-> "done", i |-> 2], [ev |-> "done", i |-> 1]>>
    /\ ResultAt(1) = "D1" /\ ResultAt(2) = "D2"
    /\ a_ret.v[a_uris[1]] = "D1" /\ a_ret.v[a_uris[2]] = "D2"

\* one identifier given twice, its two GETs answered differently
C18_WitnessDuplicate ==
    /\ AsyncMapped
    /\ Len(a_uris) = 2 /\ a_uris[1] = a_uris[2]
    /\ ResultAt(1) = "D1" /\ ResultAt(2) = "D2"
    /\ a_ret.v[a_uris[1]] = "D2"

Events(ev) == SelectSeq(a_log, LAMBDA e : e.ev = ev)

AuthFailed == Len(Events("auth failed")) + Len(Events("auth raised")) > 0

Dispatched(i) == a_tasks[i].state # "created"

\* C19: get_multiple_experiments_data performs exactly one authentication,
\* which completes before any GET is dispatched; if it fails, no GET is
\* dispatched and the empty mapping is returned; every GET carries the same
\* token; and the call returns only after all N GETs have completed.
C19_ProtocolOrder ==
    a_pc # "idle" =>
        /\ Len(Events("auth")) = 1
        /\ \A k \in 1..Len(a_log) :
              a_log[k].ev = "send" => k > 2 /\ a_log[2].ev = "auth ok"
        /\ AuthFailed => Len(Events("send")) = 0
        /\ AuthFailed /\ a_pc = "returned" => a_ret = DictRet(EmptyDict)
        /\ \A i \in 1..Len(a_tasks) : Dispatched(i) => a_tasks[i].token = a_token
        /\ a_pc = "returned" => \A i \in 1..Len(a_tasks) : a_tasks[i].state = "done"

\* the part of C19 the code does satisfy: the order, the token, and the two
\* ends of a call in which nothing raises
C19_OrderWithoutExceptions ==
    a_pc # "idle" =>
        /\ Len(Events("auth")) = 1
        /\ \A k \in 1..Len(a_log) :
              a_log[k].ev = "send" => k > 2 /\ a_log[2].ev = "auth ok"
        /\ AuthFailed => Len(Events("send")) = 0
        /\ Len(Events("auth failed")) > 0 /\ a_pc = "returned" => a_ret = DictRet(EmptyDict)
        /\ \A i \in 1..Len(a_tasks) : Dispatched(i) => a_tasks[i].token = a_token
        /\ a_pc = "returned" /\ a_ret.kind = "dict"
           => \A i \in 1..Len(a_tasks) : a_tasks[i].state = "done"

\* the authentication raised and so did the call
C19_AuthRaised ==
    a_pc = "returned" /\ Len(Events("auth raised")) > 0 /\ a_ret = RaisedRet

\* the call ended while a GET was still in flight
C19_EndedEarly ==
    /\ a_pc = "returned"
    /\ \E i \in 1..Len(a_tasks) : a_tasks[i].state = "sent"

-----------------------------------------------------------------------------
(* Claims about the session: order of events, retried request, fixed fields *)

\* the retries: the calls to the target after the first one
RetryIdx == {k \in TargetIdx : \E j \in TargetIdx : j < k}

\* C21 (event order within one _make_request call): in the record of the
\* calls of one _make_request, a re-authentication directly follows a call of
\* the target that was answered 401, and a retry directly follows a
\* re-authentication that succeeded (200 with a token), which itself follows
\* the 401; no retry occurs without both, and this holds at every step of the
\* call, not only at its return.
C21_EventOrder ==
    /\ \A i \in ReauthIdx :
          /\ i - 1 \in TargetIdx
          /\ HasStatus(calls[i - 1].resp, 401)
    /\ \A k \in RetryIdx :
          /\ k - 1 \in ReauthIdx
          /\ TokenAnswer(calls[k - 1].resp)
          /\ k - 2 \in TargetIdx
          /\ HasStatus(calls[k - 2].resp, 401)
    /\ pc = "reauth" =>
          /\ calls # <<>>
          /\ IsTarget(calls[Len(calls)])
          /\ HasStatus(calls[Len(calls)].resp, 401)
    /\ pc = "retry" =>
          /\ Len(calls) >= 2
          /\ Len(calls) \in ReauthIdx
          /\ TokenAnswer(calls[Len(calls)].resp)

C21_Witness ==
    /\ Returned
    /\ RetryIdx # {}
    /\ ReauthIdx # {}
    /\ \E k \in RetryIdx : HasStatus(calls[k].resp, 200)

\* a call that met a 401 and gave up after the re-authentication failed
C21_WitnessNoRetry ==
    /\ Returned
    /\ ReauthIdx # {}
    /\ RetryIdx = {}

\* the request line and payload of a network call
SentRequest(c) == [method |-> c.method, url |-> c.url, params |-> c.params, json |-> c.json]

\* the value of the Authorization header a call was sent with
SentAuthorization(c) ==
    IF "Authorization" \in DOMAIN c.headers THEN c.headers["Authorization"] ELSE None

\* C22 (the retried request): every retry of a _make_request call is sent
\* with the method, URL, query params and body of the original attempt, the
\* URL being base_url followed by the endpoint, and its Authorization header
\* is "Bearer " followed by the token that the re-authentication just before
\* it issued; whenever that token differs from the one the 401 rejected, the
\* retry's header differs from the rejected attempt's.
C22_RetrySameRequestNewToken ==
    \A k \in RetryIdx :
        /\ SentRequest(calls[k]) = SentRequest(calls[FirstTarget])
        /\ calls[k].url = base_url \o req.endpoint
        /\ calls[k].params = req.params /\ calls[k].json = req.data
        /\ SentAuthorization(calls[k]) = "Bearer " \o PyFormat(calls[k - 1].resp.body.token)
        /\ DOMAIN calls[k].headers = DOMAIN calls[FirstTarget].headers
        /\ calls[k].headers["Content-Type"] = calls[FirstTarget].headers["Content-Type"]
        /\ SentAuthorization(calls[FirstTarget])
              # "Bearer " \o PyFormat(calls[k - 1].resp.body.token)
              => SentAuthorization(calls[k]) # SentAuthorization(calls[FirstTarget])

\* a POST with a body, rejected under token T1, retried under the new token T2
C22_Witness ==
    /\ Returned
    /\ Len(calls) = 3
    /\ calls[1].method = "POST" /\ calls[1].json = "[row]"
    /\ SentAuthorization(calls[1]) = "Bearer T1"
    /\ HasStatus(calls[1].resp, 401)
    /\ IsTarget(calls[3])
    /\ SentAuthorization(calls[3]) = "Bearer T2"
    /\ calls[3].json = "[row]"

\* the re-authentication handed out the very token that was rejected
C22_WitnessSameToken ==
    /\ RetryIdx # {}
    /\ \E k \in RetryIdx : SentAuthorization(calls[k]) = SentAuthorization(calls[FirstTarget])

\* a step that constructs a session
Construction == \E a \in ConstructorArgs : NewSession(a.url, a.cred)

\* the header set apart from its Authorization entry
OtherHeaders(hdrs) == [h \in (DOMAIN hdrs) \ {"Authorization"} |-> hdrs[h]]

EndsWithSlash(t) == t # <<>> /\ t[Len(t)] = "/"

\* C23 (fixed base URL and credentials): the base URL of a session never ends
\* with '/', every network call of a _make_request goes to base_url followed
\* by its path and every authentication call sends the session's credential
\* pair; and every step of authenticate and _make_request (the resource
\* getters are calls of _make_request) leaves base_url, username, password and
\* all headers other than Authorization unchanged: only a construction sets
\* them.
C23_FixedAccount ==
    /\ [](~EndsWithSlash(base_url))
    /\ [](\A i \in 1..Len(calls) :
            /\ calls[i].url = base_url \o calls[i].path
            /\ IsAuth(calls[i]) => calls[i].json = auth_data)
    /\ [][Construction \/
            /\ base_url' = base_url
            /\ username' = username
            /\ password' = password
            /\ OtherHeaders(headers') = OtherHeaders(headers)]_vars

\* a session built from a URL with a trailing '/' and given credentials that
\* has authenticated twice within a request, its token and header replaced
C23_Witness ==
    /\ base_url = <<"h", "t", "t", "p", ":", "/", "/", "h", "/", "r", "e", "s", "t">>
    /\ username = "alice" /\ password = "secret"
    /\ Returned
    /\ Cardinality(AuthIdx) = 2
    /\ token = "T2"
    /\ SentAuthorization(calls[Len(calls)]) = "Bearer T2"
    /\ SentAuthorization(calls[2]) = "Bearer T1"

-----------------------------------------------------------------------------
(* Claims about the search wrappers *)

SearchMethods == {"search_projects", "search_experiments", "search_scientific_objects"}

SearchFilters(method) ==
    IF method = "search_projects" THEN ProjectFilters
    ELSE IF method = "search_experiments" THEN ExperimentFilters
    ELSE ScientificObjectFilters

\* a search wrapper has reached its call on self.client
SearchSent == fc_call.method \in SearchMethods /\ Len(fc_sent) = 1

\* the parameter object the wrapper works on
SearchParams ==
    IF fc_call.arg.kind = "None" THEN DefaultParams(SearchFilters(fc_call.method))
    ELSE fc_call.arg.v

\* the query of a search holds page and page_size, holds the filter f exactly
\* when Present(f, value of f) and holds no None
SearchQueryIs(Present(_, _)) ==
    SearchSent =>
        LET query == fc_sent[1].params
            filters == Range(SearchFilters(fc_call.method))
        IN  /\ query.kind = "dict"
            /\ fc_sent[1].verb = "GET"
            /\ DOMAIN query.v = {"page", "page_size"}
                                \cup {f \in filters : Present(f, SearchParams[f])}
            /\ \A k \in DOMAIN query.v :
                  /\ query.v[k] = SearchParams[k]
                  /\ query.v[k] # PyNone
            /\ ("is_public" \in filters /\ SearchParams["is_public"] = PyFalse)
               => ("is_public" \in DOMAIN query.v /\ query.v["is_public"] = PyFalse)

\* a filter that is set and not empty; for is_public, one that is not None
SetFilter(f, x) == IF f = "is_public" THEN x # PyNone ELSE SetNonEmpty(x)

\* a filter that is truthy; for is_public, one that is not None
TruthyFilter(f, x) == IF f = "is_public" THEN x # PyNone ELSE ValTruthy(x)

\* C24 (search queries): the three search wrappers always send page and
\* page_size, send a filter key exactly when the field of the parameter object
\* is set (not None) and non-empty, never send a key whose value is None, and
\* send is_public = False, omitting is_public only when it is None.
C24_SearchQuery == SearchQueryIs(SetFilter)

\* the same with "truthy" for "set and non-empty": year = 0 counts as absent
C24_TruthyFilters == SearchQueryIs(TruthyFilter)

\* search_projects with year = 0: the year filter is left out of the query
C24_YearZeroOmitted ==
    /\ SearchSent
    /\ fc_call.method = "search_projects"
    /\ SearchParams["year"] = PyInt(<<"0">>)
    /\ "year" \notin DOMAIN fc_sent[1].params.v

\* search_experiments with is_public = False and an empty name
C24_WitnessFalseSent ==
    /\ SearchSent
    /\ fc_call.method = "search_experiments"
    /\ SearchParams["is_public"] = PyFalse
    /\ SearchParams["name"] = PyStr(<<>>)
    /\ DOMAIN fc_sent[1].params.v = {"page", "page_size", "is_public"}
    /\ fc_ret.kind = "envelope"

-----------------------------------------------------------------------------
(* Claims about the two host-configuration parsers *)

\* what parse_ssh_config returns for the lines of a readable file
RECURSIVE parse_lines(_, _, _)
parse_lines(lines, hs, cur) ==
    IF lines = <<>> THEN hs
    ELSE LET r == parse_line(Head(lines), hs, cur)
         IN  parse_lines(Tail(lines), r.hosts, r.current_host)

\* what parse_ssh_config(config_path) returns for a file
parse_ssh_config_result(c) ==
    IF c.state # "text" THEN EmptyDict ELSE parse_lines(c.lines, EmptyDict, <<>>)

\* the loop of the model computes what parse_lines computes
ParseLoopIsParseLines == Parsed => hosts = parse_lines(cfg.lines, EmptyDict, <<>>)

GetHostCalled == host_call.fn = "get_host.SSHConfigParser"

\* C25 (interchangeable parsers): for every configuration input, a missing
\* file and a key-only attribute line included, get_host.SSHConfigParser
\* does not raise and yields the alias-to-attributes mapping that
\* opensilex_client.SSHConfigParser.parse_ssh_config returns for that input.
C25_ParsersInterchangeable ==
    GetHostCalled =>
        /\ host_ret.kind # "raised"
        /\ host_ret.kind = "dict" /\ host_ret.v = parse_ssh_config_result(cfg)

\* every attribute line of the text separates key and value and holds a space
SpaceSeparated(lines) ==
    \A i \in 1..Len(lines) :
        LET line == Strip(lines[i])
        IN  line = <<>> \/ StartsWith(line, <<"#">>) \/ Contains(line, " ")

\* the two parsers agree on a readable file whose attribute lines all hold a
\* key, a space and a value
C25_AgreeOnSpaceSeparated ==
    (GetHostCalled /\ cfg.state = "text" /\ SpaceSeparated(cfg.lines)) =>
        /\ host_ret.kind = "dict"
        /\ host_ret.v = parse_ssh_config_result(cfg)

\* get_host.SSHConfigParser() on a missing file raises
C25_MissingFileRaises ==
    GetHostCalled /\ cfg.state = "missing" /\ host_ret.kind = "raised"

\* a key-only attribute line makes get_host.SSHConfigParser() raise where
\* parse_ssh_config returns the host without that attribute
C25_KeyOnlyRaises ==
    /\ GetHostCalled
    /\ cfg.lines = <<LineHostDemo, LineKeyOnly>>
    /\ host_ret.kind = "raised"
    /\ parse_ssh_config_result(cfg) = DictSet(EmptyDict, AliasDemo, EmptyDict)

\* a tab-separated attribute line is kept by get_host and dropped by the other
C25_TabLineDiffers ==
    /\ GetHostCalled
    /\ cfg.lines = <<LineHostDemo, LineUserTab>>
    /\ host_ret.kind = "dict"
    /\ host_ret.v # parse_ssh_config_result(cfg)

\* behind get_ssh_config_hosts the exception becomes the empty mapping, which
\* is not the mapping parse_ssh_config returns
C25_WrapperLosesHosts ==
    /\ host_call.fn = "get_ssh_config_hosts"
    /\ cfg.lines = <<LineHostDemo, LineHostName, LineKeyOnly>>
    /\ host_ret = [kind |-> "dict", v |-> EmptyDict]
    /\ parse_ssh_config_result(cfg) # EmptyDict

-----------------------------------------------------------------------------
(* Claims about the token and the Authorization header *)

HasAuthorization == "Authorization" \in DOMAIN headers

\* C26 (token/header consistency): in every reachable state of a session the
\* header set holds an Authorization header exactly when a token is stored
\* (self.token is not None), and the header's value is "Bearer " followed by
\* the stored token.
C26_TokenHeaderConsistency ==
    /\ HasAuthorization <=> token # None
    /\ HasAuthorization => headers["Authorization"] = "Bearer " \o token

\* what holds of the pair in every state: a stored token has its header, and
\* the header is "Bearer " followed by the text of self.token, "None" included
C26_HeaderIsFormattedToken ==
    /\ token # None => HasAuthorization
    /\ HasAuthorization => headers["Authorization"] = "Bearer " \o PyFormat(token)

\* authenticate() has returned True on an answer 200 whose token is null: no
\* token is stored and the header reads "Bearer None"
C26_NullTokenAccepted ==
    /\ pc = "idle"
    /\ authRet = "True"
    /\ token = None
    /\ HasAuthorization
    /\ headers["Authorization"] = "Bearer None"

\* a token replaced by a later authentication, the header following it
C26_WitnessInStep ==
    /\ pc = "idle"
    /\ Returned
    /\ Cardinality(AuthIdx) = 1 /\ heldAtCall
    /\ token = "T2" /\ okAtCall = "T1"
    /\ headers["Authorization"] = "Bearer T2"

-----------------------------------------------------------------------------
(* Claims about a failed page fetch *)

\* what get_all_pages returns when the listing method returns these pages one
\* after the other
RECURSIVE get_all_pages_result(_, _)
get_all_pages_result(pages, all) ==
    IF pages = <<>> THEN all
    ELSE IF ~TruthyResults(Head(pages)) THEN all
    ELSE IF short_page(Head(pages)) THEN extend(all, Head(pages))
    ELSE get_all_pages_result(Tail(pages), extend(all, Head(pages)))

\* the pages before the last one received
EarlierPages == SubSeq(gp_pages, 1, Len(gp_pages) - 1)

\* the call has returned after a fetch that failed behind k >= 1 full pages
FailedAfterFullPages ==
    /\ gp_pc = "done"
    /\ Len(gp_pages) >= 2
    /\ gp_pages[Len(gp_pages)] = NonePage
    /\ \A i \in 1..(Len(gp_pages) - 1) :
          gp_pages[i].kind = "list" /\ Len(gp_pages[i].items) = page_size

\* C27 (failure looks like the end): when the listing method returns None
\* after k >= 1 full pages, get_all_pages returns the items of those k pages,
\* in order, as an ordinary list; this is the very value it returns for a
\* listing whose pages 0..k-1 are the same and whose page k is empty, and the
\* listing method was called the same k+1 times in both cases.
C27_FailureLooksLikeEnd ==
    /\ gp_pc = "done" => gp_ret = get_all_pages_result(gp_pages, <<>>)
    /\ FailedAfterFullPages =>
          /\ gp_ret = Flatten(EarlierPages)
          /\ Len(gp_ret) = page_size * (Len(gp_pages) - 1)
          /\ gp_ret = get_all_pages_result(EarlierPages \o <<ListPage(<<>>)>>, <<>>)
          /\ Len(gp_calls) = Len(EarlierPages) + 1

\* two full pages, then a failed fetch: 100 items are returned
C27_Witness ==
    /\ FailedAfterFullPages
    /\ Len(gp_pages) = 3
    /\ Len(gp_ret) = 100

\* the same two pages followed by an empty page: the same 100 items
C27_WitnessEnd ==
    /\ gp_pc = "done"
    /\ Len(gp_pages) = 3
    /\ gp_pages[3] = ListPage(<<>>)
    /\ Len(gp_ret) = 100

-----------------------------------------------------------------------------
(* Claims about failed fetches of get_multiple_experiments_data *)

\* the call has returned a mapping after an authentication that succeeded
AuthOkMapped ==
    a_pc = "returned" /\ a_ret.kind = "dict" /\ Len(Events("auth ok")) > 0

\* the GET of position i was answered with a status other than 200
NonOkAt(i) == a_tasks[i].resp.kind = "http" /\ a_tasks[i].resp.status # 200

\* the last position of experiment_uris holding the identifier of position i
LastOf(i) == \A j \in (i + 1)..Len(a_uris) : a_uris[j] # a_uris[i]

\* the answer of an experiment without data: 200 with {"result": []}
NoDataAnswer == [kind |-> "http", status |-> 200, body |-> DataBody(TRUE, TRUE, FALSE, "[]")]

SendsOf(i) == {k \in 1..Len(a_log) : a_log[k] = [ev |-> "send", i |-> i]}

\* C28 (failed fetch looks like no data): when the authentication succeeded
\* and a mapping is returned, its keys are exactly the input identifiers; an
\* identifier whose GET (the one of its last position, should it occur twice)
\* was answered with a status other than 200, 401 included, maps to the empty
\* list, the value an experiment without data maps to; and the call made one
\* authentication and one GET per position, whatever the answers were.
C28_FailedFetchLooksEmpty ==
    AuthOkMapped =>
        /\ DOMAIN a_ret.v = Range(a_uris)
        /\ \A i \in 1..Len(a_tasks) :
              (NonOkAt(i) /\ LastOf(i)) =>
                  /\ a_ret.v[a_uris[i]] = "[]"
                  /\ a_ret.v[a_uris[i]] = extract(fetch_data_async(NoDataAnswer))
        /\ Len(Events("auth")) = 1
        /\ Len(Events("auth ok")) = 1
        /\ Len(Events("send")) = Len(a_uris)
        /\ \A i \in 1..Len(a_uris) : Cardinality(SendsOf(i)) = 1

\* one GET answered 401 and one answered 500: both identifiers map to []
C28_Witness ==
    /\ AuthOkMapped
    /\ Len(a_uris) = 2 /\ a_uris[1] # a_uris[2]
    /\ a_tasks[1].resp.kind = "http" /\ a_tasks[1].resp.status = 401
    /\ a_tasks[2].resp.kind = "http" /\ a_tasks[2].resp.status = 500
    /\ a_ret.v[a_uris[1]] = "[]" /\ a_ret.v[a_uris[2]] = "[]"

\* an experiment without data next to one whose GET was rejected: same value
C28_WitnessNoData ==
    /\ AuthOkMapped
    /\ Len(a_uris) = 2 /\ a_uris[1] # a_uris[2]
    /\ a_tasks[1].resp = NoDataAnswer
    /\ NonOkAt(2)
    /\ a_ret.v[a_uris[1]] = a_ret.v[a_uris[2]]

-----------------------------------------------------------------------------
(* Batch upload: OpenSilexBatchProcessor.batch_upload_data *)

\* most rows prepared for one upload
MaxRows == 250

\* `batch_size = 100`
batch_size == 100

RowCounts ==
    {0, 1, batch_size - 1, batch_size, batch_size + 1, 2 * batch_size - 1,
     2 * batch_size, 2 * batch_size + 1, MaxRows}

\* entries of `errors`: f"Row {idx}: ..." and f"Failed to upload batch {n}"
RowError(idx) == [kind |-> "row", n |-> idx]
BatchError(n) == [kind |-> "batch", n |-> n]

\* data_list[i:j]
Slice(list, i, j) == SubSeq(list, i + 1, Min(j, Len(list)))

\* the success count adding batch_size for every batch posted
count_success_full_batch(count, batch, ok) == IF ok THEN count + batch_size ELSE count

\* `if self.client.post_data(batch): success_count += len(batch)`
count_success(count, batch, ok) == IF ok THEN count + Len(batch) ELSE count

\* `else: errors.append(f"Failed to upload batch {i//batch_size + 1}")`
record_failure(errs, i, ok) ==
    IF ok THEN errs ELSE Append(errs, BatchError(i \div batch_size + 1))

\* batch_upload_data(csv_file, mapping) has read the file and prepared its
\* rows: n rows in data_list, in row order, and one "Row" error for each of
\* the row_errors rows whose preparation raised
BatchUploadData(n, row_errors) ==
    /\ b_pc = "idle"
    /\ data_list' = [j \in 1..n |-> j]
    /\ b_errors' = [j \in 1..row_errors |-> RowError(n + j)]
    /\ success_count' = 0
    /\ b_i' = 0
    /\ b_posts' = <<>>
    /\ b_pc' = "loop"
    /\ UNCHANGED <<sessionVars, pageVars, listingVars, hostVars, facadeVars, asyncVars>>

\* one turn of `for i in range(0, len(data_list), batch_size):`; ok is what
\* post_data returned (`result is not None`; _make_request does not raise)
PostBatch(ok) ==
    /\ b_pc = "loop"
    /\ b_i < Len(data_list)
    /\ LET batch == Slice(data_list, b_i, b_i + batch_size)
       IN  /\ b_posts' = Append(b_posts, [i |-> b_i, batch |-> batch, ok |-> ok])
           /\ success_count' = count_success(success_count, batch, ok)
           /\ b_errors' = record_failure(b_errors, b_i, ok)
    /\ b_i' = b_i + batch_size
    /\ UNCHANGED <<b_pc, data_list>>
    /\ UNCHANGED <<sessionVars, pageVars, listingVars, hostVars, facadeVars, asyncVars>>

\* the range is exhausted: `return success_count, errors`
BatchReturn ==
    /\ b_pc = "loop"
    /\ b_i >= Len(data_list)
    /\ b_pc' = "returned"
    /\ UNCHANGED <<data_list, b_i, success_count, b_errors, b_posts>>
    /\ UNCHANGED <<sessionVars, pageVars, listingVars, hostVars, facadeVars, asyncVars>>

\* the caller goes on; the locals are gone
BatchCallOver ==
    /\ b_pc = "returned"
    /\ b_pc' = "idle"
    /\ data_list' = <<>>
    /\ b_i' = 0
    /\ success_count' = 0
    /\ b_errors' = <<>>
    /\ b_posts' = <<>>
    /\ UNCHANGED <<sessionVars, pageVars, listingVars, hostVars, facadeVars, asyncVars>>

NextBatch ==
    \/ \E n \in RowCounts, row_errors \in 0..1 : BatchUploadData(n, row_errors)
    \/ \E ok \in BOOLEAN : PostBatch(ok)
    \/ BatchReturn
    \/ BatchCallOver

SpecBatch == Init /\ [][NextBatch]_vars

\* the rows of the batches posted so far, in the order posted
RECURSIVE PostedRows(_)
PostedRows(posts) ==
    IF posts = <<>> THEN <<>>
    ELSE PostedRows(SubSeq(posts, 1, Len(posts) - 1)) \o posts[Len(posts)].batch

OkPosts == {k \in 1..Len(b_posts) : b_posts[k].ok}
FailedPosts == {k \in 1..Len(b_posts) : ~b_posts[k].ok}

RECURSIVE SizeOf(_)
SizeOf(K) ==
    IF K = {} THEN 0
    ELSE LET k == CHOOSE x \in K : TRUE IN Len(b_posts[k].batch) + SizeOf(K \ {k})

BatchErrors == SelectSeq(b_errors, LAMBDA e : e.kind = "batch")
RowErrors == SelectSeq(b_errors, LAMBDA e : e.kind = "row")

\* C29 (batch upload): the prepared rows are posted in consecutive batches of
\* at most 100 rows, in row order, each row in exactly one batch; every batch
\* is posted whatever became of the others; success_count is the total size of
\* the batches whose post succeeded, between 0 and the number of prepared
\* rows; and the error list has gained one entry per failed batch, naming it,
\* behind the entries it held before the upload.
C29_BatchUpload ==
    b_pc \in {"loop", "returned"} =>
        /\ \A k \in 1..Len(b_posts) :
              /\ Len(b_posts[k].batch) >= 1 /\ Len(b_posts[k].batch) <= 100
              /\ k < Len(b_posts) => Len(b_posts[k].batch) = 100
              /\ b_posts[k].i = 100 * (k - 1)
        /\ PostedRows(b_posts) = SubSeq(data_list, 1, Len(PostedRows(b_posts)))
        /\ b_pc = "returned" =>
              /\ PostedRows(b_posts) = data_list
              /\ Len(b_posts) = CeilDiv(Len(data_list), 100)
        /\ success_count = SizeOf(OkPosts)
        /\ success_count >= 0 /\ success_count <= Len(data_list)
        /\ Len(BatchErrors) = Cardinality(FailedPosts)
        /\ \A k \in FailedPosts : \E j \in 1..Len(b_errors) : b_errors[j] = BatchError(k)
        /\ \A j \in 1..Len(RowErrors) : b_errors[j] = RowErrors[j]

\* 250 rows in three batches, the second one failed: 150 rows counted, one
\* error added behind the row error that was there
C29_Witness ==
    /\ b_pc = "returned"
    /\ Len(data_list) = 250
    /\ Len(b_posts) = 3
    /\ b_posts[1].ok /\ ~b_posts[2].ok /\ b_posts[3].ok
    /\ Len(b_posts[3].batch) = 50
    /\ success_count = 150
    /\ b_errors = <<RowError(251), BatchError(2)>>


(***************************************************************************)
(* C30: the header set an authentication request is sent with              *)
(***************************************************************************)

\* the header set of the last step's authentication request has an
\* Authorization entry
SentWithAuthorization == "Authorization" \in DOMAIN authSent.headers

\* C30 (as stated): within a session, only the first authentication is sent
\* without an Authorization header; an authentication invoked while a token is
\* held carries "Bearer <old token>", and the header set changes only on an
\* answer with status 200 and a token.
C30_OnlyFirstWithoutHeader ==
    authSent.sent =>
        /\ (~authSent.first => SentWithAuthorization)
        /\ (authSent.first => ~SentWithAuthorization)
        /\ (authSent.held # None =>
                /\ SentWithAuthorization
                /\ authSent.headers["Authorization"] = "Bearer " \o authSent.held)
        /\ (~TokenAnswer(lastAuth) => headers = authSent.headers)

\* C30 (amended): an authentication is sent without an Authorization header
\* exactly when no earlier authentication of the session was answered 200 with
\* a token (the first one, and every one that follows only failed ones); an
\* authentication invoked while a token is held carries "Bearer <old token>";
\* the header set is left as sent unless the answer is 200 with a token, and
\* then only its Authorization entry is replaced, by the new token's.
C30_HeaderOfAuthentication ==
    authSent.sent =>
        /\ (SentWithAuthorization <=> authSent.ok_before)
        /\ (authSent.first => ~SentWithAuthorization)
        /\ (authSent.held # None =>
                /\ SentWithAuthorization
                /\ authSent.headers["Authorization"] = "Bearer " \o authSent.held)
        /\ (~TokenAnswer(lastAuth) => headers = authSent.headers)
        /\ (TokenAnswer(lastAuth) =>
                /\ headers["Authorization"] = "Bearer " \o PyFormat(lastAuth.body.token)
                /\ \A h \in (DOMAIN authSent.headers) \ {"Authorization"} :
                      h \in DOMAIN headers /\ headers[h] = authSent.headers[h])

\* a re-authentication sent with the old token's header and answered with a
\* different token, which replaced it
C30_Witness ==
    /\ authSent.sent /\ ~authSent.first
    /\ authSent.held # None
    /\ SentWithAuthorization
    /\ TokenAnswer(lastAuth)
    /\ headers["Authorization"] # authSent.headers["Authorization"]

\* a second authentication of the session, sent without an Authorization
\* header because the first was not accepted
C30_WitnessSecondWithoutHeader ==
    /\ authSent.sent /\ ~authSent.first
    /\ ~SentWithAuthorization

\* a re-authentication sent with the old token's header and refused: the old
\* header stays
C30_WitnessRefusedKeepsHeader ==
    /\ authSent.sent /\ authSent.held # None
    /\ ~TokenAnswer(lastAuth)
    /\ SentWithAuthorization
    /\ headers = authSent.headers










=============================================================================
